---- MODULE Spec2Model ----
(***************************************************************************)
(* Token safety scanner (src/server.js): the holder concentration          *)
(* analysis, the risk scoring function, the scan handler of                *)
(* GET /api/check-token/:network/:address, alone and beside a second scan, *)
(* and the rate limiter; and the network selection of the Telegram bot     *)
(* (src/telegram-bot.js).                                                  *)
(*                                                                         *)
(* Numbers.  JavaScript Numbers that carry fractions (holder percent,      *)
(* taxes, LP supply) are fixed-point integers counting units of 1/Scale,   *)
(* so 1.0 is Scale units and 0.42 is 42000 units.  toFixed(2) and          *)
(* toFixed(4) round to the nearest multiple of Scale/100 and Scale/10000.  *)
(*                                                                         *)
(* JavaScript values.  null is the string "null", a missing field is the   *)
(* string "undefined"; a nullable object is a sequence of length 0 (null)  *)
(* or 1 (the object).  GoPlus flags are the strings "0" and "1".  The      *)
(* field verified, which may hold true, false or '', is a string.          *)
(***************************************************************************)
EXTENDS Integers, Sequences, FiniteSets, TLC

VARIABLES
    pc,               \* position of the handler / of the function under check
    network,          \* req.params.network
    addressValid,     \* outcome of isValidAddress / isValidSolanaAddress
    tokenInfo,        \* let tokenInfo (server.js:516)
    verificationData, \* let verificationData (server.js:525), nullable
    securityData,     \* let securityData (server.js:558), nullable
    holders,          \* the ranked holder list handed to the analyzer, nullable
    encoding,         \* how the source expressed holder percent
    holderAnalysis,   \* const holderAnalysis (server.js:677), nullable
    riskAssessment,   \* const riskAssessment (server.js:680), nullable
    response,         \* what res.status(..).json(..) sent, nullable
    calls,            \* provider calls issued so far, in order
    received,          \* provider received received so far, in order (history)
    rateLimitMap,     \* const rateLimitMap = new Map() (server.js:40)
    now,              \* Date.now(), in milliseconds
    admitted,         \* per IP, the times at which rateLimit called next() (history)
    limited,          \* per IP, how many requests rateLimit answered 429 (history)
    userSessions,     \* const userSessions = new Map() (telegram-bot.js:22)
    botScans,         \* the scans the bot's message handler started, in order
    selected,         \* per chat, how many network selections were made (history)
    parked,           \* the locals of the scan suspended at an await, nullable
    running           \* which of two concurrent scans owns the handler variables

\* the variables of one invocation of the scan handler
scanVars == <<pc, network, addressValid, tokenInfo, verificationData, securityData,
              holders, encoding, holderAnalysis, riskAssessment, response, calls,
              received>>

\* the rate limiter's variables
limiterVars == <<rateLimitMap, now, admitted, limited>>

\* the bot's variables
botVars == <<userSessions, botScans, selected>>

\* what a step of one scan handler leaves alone
outsideVars == <<limiterVars, botVars, parked, running>>

vars == <<scanVars, outsideVars>>

----------------------------------------------------------------------------
(* Bounds of the model. *)

\* longest holder list a provider answer carries (the analyzer reads 10)
MaxHolders == 11

----------------------------------------------------------------------------
(* JavaScript values and numbers. *)

Scale == 100000

NULL == "null"
UNDEFINED == "undefined"

None == <<>>
Some(x) == <<x>>
IsSome(o) == Len(o) = 1
Get(o) == o[1]

\* the booleans of a field that may also hold a string (verified is the
\* value of `SourceCode && SourceCode !== ''`, server.js:297), and the
\* conversion a condition applies to such a field
JsTrue == "true"
JsFalse == "false"
ToBoolean(v) == v \notin {JsFalse, "", NULL, UNDEFINED}

Min(a, b) == IF a < b THEN a ELSE b
Max(a, b) == IF a > b THEN a ELSE b

\* Number.prototype.toFixed(digits) followed by parseFloat, on a
\* non-negative number: the nearest multiple of 10^-digits, halves up.
RoundTo(x, step) == ((x + step \div 2) \div step) * step
toFixed2(x) == RoundTo(x, Scale \div 100)
toFixed4(x) == RoundTo(x, Scale \div 10000)

\* a string field of a provider record that may be missing, may be 'N/A',
\* or holds the decimal text of a number
Missing == [t |-> "undefined"]
NotANumber == [t |-> "N/A"]
NumStr(n) == [t |-> "numeric", n |-> n]
Truthy(v) == v.t # "undefined"
IsNumeric(v) == v.t = "numeric"

----------------------------------------------------------------------------
(* The parts of the process outside one scan, at rest.  The specifications  *)
(* of the scoring function, of the analyzer and of a single scan start and  *)
(* stay there.                                                              *)

\* req.ip of the clients
ClientIPs == {"ip1", "ip2"}

\* msg.chat.id of the bot's chats
Chats == {"chat1", "chat2"}

\* no request was seen yet: the map has no key
LimiterIdle ==
    /\ rateLimitMap = [ip \in ClientIPs |-> None]
    /\ now = 0
    /\ admitted = [ip \in ClientIPs |-> <<>>]
    /\ limited = [ip \in ClientIPs |-> 0]

\* no chat selected a network yet: the map has no key
BotIdle ==
    /\ userSessions = [chat \in Chats |-> None]
    /\ botScans = <<>>
    /\ selected = [chat \in Chats |-> 0]

\* a single scan owns the handler variables
OneScan == parked = None /\ running = 1

----------------------------------------------------------------------------
(* analyzeHolderConcentration, server.js:163-227 *)

HOLDER_CONCENTRATION_THRESHOLD == 15
TOP_N == 10
HIGH_CONCENTRATION == 50

\* faulty variant, for sensitivity checks: an off-by-one slice, slice(0, 11)
Top10_Slice11(hs) == SubSeq(hs, 1, Min(Len(hs), TOP_N + 1))
\* holders.slice(0, 10)
Top10(hs) == SubSeq(hs, 1, Min(Len(hs), TOP_N))

\* top10Holders.forEach(holder => top10Percentage += parseFloat(holder.percent || 0))
RECURSIVE SumPercent(_)
SumPercent(hs) ==
    IF hs = <<>> THEN 0 ELSE Head(hs).percent + SumPercent(Tail(hs))

\* if (top10Percentage < 1) top10Percentage = top10Percentage * 100
Normalize(s) == IF s < Scale THEN s * 100 ELSE s

\* faulty variant, for sensitivity checks: the high band closed at 50 (>= instead of >)
RiskBand_Inclusive(p) ==
    IF p >= HIGH_CONCENTRATION * Scale THEN "high"
    ELSE IF p > HOLDER_CONCENTRATION_THRESHOLD * Scale THEN "medium"
    ELSE "low"
\* the if / else if / else of server.js:191-200
RiskBand(p) ==
    IF p > HIGH_CONCENTRATION * Scale THEN "high"
    ELSE IF p > HOLDER_CONCENTRATION_THRESHOLD * Scale THEN "medium"
    ELSE "low"

BandMessage(risk) ==
    CASE risk = "high" -> "DANGER: Top 10 holders control"
      [] risk = "medium" -> "WARNING: Top 10 holders control"
      [] OTHER -> "SAFE: Top 10 holders control only"

\* faulty variant, for sensitivity checks: no data reported as 0% concentration, low risk
Unavailable_AsZero ==
    [available |-> TRUE, top10Percentage |-> 0, isConcentrated |-> FALSE,
     risk |-> "low", message |-> "SAFE: Top 10 holders control only",
     shown |-> 0, top10Holders |-> <<>>]
\* the value returned for a missing or empty list, server.js:164-172
Unavailable ==
    [available |-> FALSE, top10Percentage |-> 0, isConcentrated |-> FALSE,
     risk |-> "unknown", message |-> "Holder data not available",
     shown |-> 0, top10Holders |-> <<>>]

\* an entry of the list that is null instead of an object
NullEntry == [isNull |-> TRUE]

\* holder.percent on a null entry of the first ten raises a TypeError inside
\* the try of server.js:174-216
AnalysisThrows(top10) ==
    \E i \in 1..Len(top10) : "isNull" \in DOMAIN top10[i]

\* the value returned by the catch, server.js:217-226
AnalysisFailed ==
    [available |-> FALSE, top10Percentage |-> 0, isConcentrated |-> FALSE,
     risk |-> "unknown", message |-> "Unable to analyze holder concentration",
     shown |-> 0, top10Holders |-> <<>>]

\* top10Holders.map(h => ({... percent: parseFloat((parseFloat(h.percent) * 100).toFixed(4)) ...}))
HolderDetail(h) ==
    [address |-> h.address, percent |-> toFixed4(h.percent * 100)]

\* the reported top10Percentage: parseFloat(top10Percentage.toFixed(2))
Reported(p) == toFixed2(p)

\* holdersOpt is None for a null / undefined argument.  `shown' is the
\* figure interpolated into the message, top10Percentage.toFixed(2).
analyzeHolderConcentration(holdersOpt) ==
    IF ~IsSome(holdersOpt) \/ Len(Get(holdersOpt)) = 0
    THEN Unavailable
    ELSE IF AnalysisThrows(Top10(Get(holdersOpt)))
    THEN AnalysisFailed
    ELSE LET top10Holders == Top10(Get(holdersOpt))
             top10Percentage == Normalize(SumPercent(top10Holders))
             risk == RiskBand(top10Percentage)
         IN  [available |-> TRUE,
              top10Percentage |-> Reported(top10Percentage),
              isConcentrated |->
                  top10Percentage > HOLDER_CONCENTRATION_THRESHOLD * Scale,
              risk |-> risk,
              message |-> BandMessage(risk),
              shown |-> toFixed2(top10Percentage),
              top10Holders |->
                  [i \in 1..Len(top10Holders) |-> HolderDetail(top10Holders[i])]]

----------------------------------------------------------------------------
(* calculateRiskScore, server.js:401-488 *)

ZERO_ADDRESS == "0x0000000000000000000000000000000000000000"
SOLANA_OWNER_UNKNOWN == "SOLANA_OWNER_UNKNOWN"

\* parseFloat(x) || 0
ParseFloatOr0(v) == IF IsNumeric(v) THEN v.n ELSE 0

\* faulty variant, for sensitivity checks: risks.unshift instead of risks.push
Deduct_Unshift(acc, points, statement) ==
    [score |-> acc.score - points, risks |-> <<statement>> \o acc.risks]
\* score -= points; risks.push(statement)
Deduct(acc, points, statement) ==
    [score |-> acc.score - points, risks |-> Append(acc.risks, statement)]

\* faulty variant, for sensitivity checks: a honeypot deduction of 30
Honeypot_Minus30(acc, sd) ==
    IF sd.is_honeypot = "1"
    THEN Deduct(acc, 30, "CRITICAL: Honeypot detected - Cannot sell tokens")
    ELSE acc
\* server.js:405-408
Honeypot(acc, sd) ==
    IF sd.is_honeypot = "1"
    THEN Deduct(acc, 40, "CRITICAL: Honeypot detected - Cannot sell tokens")
    ELSE acc

\* faulty variant, for sensitivity checks: a mintable deduction of 10
Mintable_Minus10(acc, sd) ==
    IF sd.is_mintable = "1"
    THEN Deduct(acc, 10, "HIGH: Mint function active - Supply can be increased")
    ELSE acc
\* server.js:410-413
Mintable(acc, sd) ==
    IF sd.is_mintable = "1"
    THEN Deduct(acc, 15, "HIGH: Mint function active - Supply can be increased")
    ELSE acc

\* securityData.owner_address && owner_address !== ZERO && owner_address !== null
OwnerPresent(sd) ==
    /\ sd.owner_address \notin {UNDEFINED, NULL, ""}
    /\ sd.owner_address # ZERO_ADDRESS

\* faulty variant, for sensitivity checks: half the deduction for the sentinel
Owner_ReducedForUnknown(acc, sd) ==
    IF OwnerPresent(sd)
    THEN IF sd.owner_address = SOLANA_OWNER_UNKNOWN
         THEN Deduct(acc, 5, "MEDIUM: Ownership status unknown (limited data)")
         ELSE Deduct(acc, 10, "MEDIUM: Ownership not renounced")
    ELSE acc

\* server.js:415-425
Owner(acc, sd) ==
    IF OwnerPresent(sd)
    THEN Deduct(acc, 10,
                IF sd.owner_address = SOLANA_OWNER_UNKNOWN
                THEN "MEDIUM: Ownership status unknown (limited data)"
                ELSE "MEDIUM: Ownership not renounced")
    ELSE acc

\* server.js:427-430
TakeBack(acc, sd) ==
    IF sd.can_take_back_ownership = "1"
    THEN Deduct(acc, 15, "HIGH: Owner can reclaim ownership")
    ELSE acc

\* server.js:432-435
Blacklist(acc, sd) ==
    IF sd.is_blacklisted = "1"
    THEN Deduct(acc, 20, "HIGH: Blacklist function enabled")
    ELSE acc

\* buyTax > 0.1 || sellTax > 0.1, server.js:437-443
HighTax(sd) ==
    \/ ParseFloatOr0(sd.buy_tax) * 10 > Scale
    \/ ParseFloatOr0(sd.sell_tax) * 10 > Scale
Tax(acc, sd) ==
    IF HighTax(sd) THEN Deduct(acc, 10, "MEDIUM: High tax") ELSE acc

\* faulty variant, for sensitivity checks: a proxy deduction of 5
Proxy_Minus5(acc, sd) ==
    IF sd.is_proxy = "1"
    THEN Deduct(acc, 5, "MEDIUM: Proxy contract - Code can be changed")
    ELSE acc
\* server.js:445-448
Proxy(acc, sd) ==
    IF sd.is_proxy = "1"
    THEN Deduct(acc, 10, "MEDIUM: Proxy contract - Code can be changed")
    ELSE acc

\* server.js:450-459; the statement is the severity and holderAnalysis.message
HolderConcentration(acc, haOpt) ==
    IF IsSome(haOpt) /\ Get(haOpt).available
    THEN IF Get(haOpt).risk = "high"
         THEN Deduct(acc, 25, "HIGH: holder concentration")
         ELSE IF Get(haOpt).risk = "medium"
         THEN Deduct(acc, 15, "MEDIUM: holder concentration")
         ELSE acc
    ELSE acc

\* faulty variant, for sensitivity checks: a null verificationData counts as
\* not verified
Verification_NullIsUnverified(acc, vdOpt) ==
    IF IsSome(vdOpt) /\ ToBoolean(Get(vdOpt).verified)
    THEN [acc EXCEPT !.score = Min(100, acc.score + 5)]
    ELSE Deduct(acc, 5, "LOW: Contract source code not verified")

\* server.js:461-468
Verification(acc, vdOpt) ==
    IF IsSome(vdOpt) /\ ToBoolean(Get(vdOpt).verified)
    THEN [acc EXCEPT !.score = Min(100, acc.score + 5)]
    ELSE IF IsSome(vdOpt) /\ ~ToBoolean(Get(vdOpt).verified)
    THEN Deduct(acc, 5, "LOW: Contract source code not verified")
    ELSE acc

\* faulty variant, for sensitivity checks: a holder count that is no number
\* is taken for a low one
LowHolderCount_NotANumberIsLow(sd) ==
    /\ Truthy(sd.holder_count)
    /\ IsNumeric(sd.holder_count) => sd.holder_count.n < 100

\* securityData.holder_count && parseInt(securityData.holder_count) < 100
LowHolderCount(sd) ==
    /\ Truthy(sd.holder_count)
    /\ IsNumeric(sd.holder_count)
    /\ sd.holder_count.n < 100

\* server.js:470-473
HolderCount(acc, sd) ==
    IF LowHolderCount(sd) THEN Deduct(acc, 5, "LOW: Low holder count") ELSE acc

\* securityData.lp_total_supply && parseFloat(lp_total_supply) < 1
LowLiquidity(sd) ==
    /\ Truthy(sd.lp_total_supply)
    /\ IsNumeric(sd.lp_total_supply)
    /\ sd.lp_total_supply.n < Scale

\* server.js:475-481
Liquidity(acc, sd) ==
    IF LowLiquidity(sd) THEN Deduct(acc, 15, "HIGH: Very low liquidity") ELSE acc

\* faulty variant, for sensitivity checks: the score without Math.max(0, .)
FinalScore_Unclamped(score) == score
\* score: Math.max(0, score), server.js:484
FinalScore(score) == Max(0, score)

\* faulty variant, for sensitivity checks: the level with > in place of >=
LevelOf_Strict(score) ==
    IF score > 80 THEN "safe" ELSE IF score > 50 THEN "warning" ELSE "danger"
\* level: score >= 80 ? 'safe' : score >= 50 ? 'warning' : 'danger', server.js:485
LevelOf(score) ==
    IF score >= 80 THEN "safe" ELSE IF score >= 50 THEN "warning" ELSE "danger"

\* The running total after every check, in the order the code runs them.
RunningTotal(sd, vdOpt, haOpt) ==
    LET a0 == [score |-> 100, risks |-> <<>>]
        a1 == Honeypot(a0, sd)
        a2 == Mintable(a1, sd)
        a3 == Owner(a2, sd)
        a4 == TakeBack(a3, sd)
        a5 == Blacklist(a4, sd)
        a6 == Tax(a5, sd)
        a7 == Proxy(a6, sd)
        a8 == HolderConcentration(a7, haOpt)
        a9 == Verification(a8, vdOpt)
        a10 == HolderCount(a9, sd)
    IN  Liquidity(a10, sd)

calculateRiskScore(sd, vdOpt, haOpt) ==
    LET acc == RunningTotal(sd, vdOpt, haOpt)
    IN  [score |-> FinalScore(acc.score),
         level |-> LevelOf(acc.score),
         risks |-> acc.risks]

----------------------------------------------------------------------------
(* Inputs of the two functions. *)

Flags == {"0", "1"}

\* owner_address of a security record: a real address, the zero address,
\* null, the empty string, a missing field, the Solana fallback's sentinel
OwnerValues ==
    {"0xOwner", ZERO_ADDRESS, NULL, "", UNDEFINED, SOLANA_OWNER_UNKNOWN}

\* buy_tax / sell_tax: missing, exactly 10%, just above 10%
TaxValues == {Missing, NumStr(Scale \div 10), NumStr(Scale \div 10 + 1)}

\* holder_count: missing, 'N/A', 99, 100
HolderCountValues == {Missing, NotANumber, NumStr(99), NumStr(100)}

\* lp_total_supply: missing, 'N/A', 0, just below 1, exactly 1
LpValues == {Missing, NotANumber, NumStr(0), NumStr(Scale - 1), NumStr(Scale)}

Holder(rank, percent) == [address |-> rank, percent |-> percent]

\* a HolderAnalysis is what the analyzer returns: for no list, and for one
\* holder owning 10%, 30% and 60% of the supply
HolderAnalysisValues ==
    {analyzeHolderConcentration(None)} \cup
    {analyzeHolderConcentration(Some(<<Holder(1, p)>>)) :
        p \in {Scale \div 10, 3 * (Scale \div 10), 6 * (Scale \div 10)}}

\* verificationData: null (Solana), verified, not verified
VerificationValues == {None, Some([verified |-> JsTrue]), Some([verified |-> JsFalse])}

SecurityRecord(hp, mint, owner, back, black, buy, sell, proxy, hc, lp, hs, name, symbol) ==
    [is_honeypot |-> hp, is_mintable |-> mint, owner_address |-> owner,
     can_take_back_ownership |-> back, is_blacklisted |-> black,
     buy_tax |-> buy, sell_tax |-> sell, is_proxy |-> proxy,
     holder_count |-> hc, lp_total_supply |-> lp, holders |-> hs,
     token_name |-> name, token_symbol |-> symbol]

ScoreInputs ==
    {SecurityRecord(hp, mint, owner, back, black, buy, sell, proxy, hc, lp,
                    None, "Token", "TKN") :
        hp \in Flags, mint \in Flags, owner \in OwnerValues, back \in Flags,
        black \in Flags, buy \in TaxValues, sell \in TaxValues, proxy \in Flags,
        hc \in HolderCountValues, lp \in LpValues}

----------------------------------------------------------------------------
(* calculateRiskScore applied to every combination of its inputs. *)

InitScore ==
    /\ pc = "input"
    /\ securityData \in {Some(sd) : sd \in ScoreInputs}
    /\ verificationData \in VerificationValues
    /\ holderAnalysis \in {Some(ha) : ha \in HolderAnalysisValues}
    /\ riskAssessment = None
    /\ network = "none"
    /\ addressValid = FALSE
    /\ tokenInfo = None
    /\ holders = None
    /\ encoding = "fraction"
    /\ response = None
    /\ calls = <<>>
    /\ received = <<>>
    /\ LimiterIdle /\ BotIdle /\ OneScan

\* const riskAssessment = calculateRiskScore(securityData, verificationData, holderAnalysis)
ScoreCall ==
    /\ UNCHANGED <<received, outsideVars>>
    /\ pc = "input"
    /\ riskAssessment' =
           Some(calculateRiskScore(Get(securityData), verificationData, holderAnalysis))
    /\ pc' = "scored"
    /\ UNCHANGED <<network, addressValid, tokenInfo, verificationData, securityData,
                   holders, encoding, holderAnalysis, response, calls>>

NextScore == ScoreCall

SpecScore == InitScore /\ [][NextScore]_vars

----------------------------------------------------------------------------
(* The deduction table of the scoring engine, stated over the inputs held  *)
(* in the state; the claims about calculateRiskScore compare it with what  *)
(* the function returned.                                                   *)

Scored == pc = "scored" /\ IsSome(riskAssessment) /\ IsSome(securityData)

InSd == Get(securityData)
OutScore == Get(riskAssessment).score
OutLevel == Get(riskAssessment).level
OutRisks == Get(riskAssessment).risks

IsVerified == verificationData # None /\ ToBoolean(verificationData[1].verified)
IsUnverified == verificationData # None /\ ~ToBoolean(verificationData[1].verified)

HolderRiskIn == IF holderAnalysis = None THEN "unknown" ELSE holderAnalysis[1].risk

TaxOver10Percent ==
    \/ (InSd.buy_tax.t = "numeric" /\ InSd.buy_tax.n * 100 > 10 * Scale)
    \/ (InSd.sell_tax.t = "numeric" /\ InSd.sell_tax.n * 100 > 10 * Scale)

\* the rows of the table in its order, the verified bonus left out: row 8
\* and 9 are the two holder concentration rows, row 10 the unverified one
RowApplies(i) ==
    CASE i = 1 -> InSd.is_honeypot = "1"
      [] i = 2 -> InSd.is_mintable = "1"
      [] i = 3 -> InSd.owner_address \notin {NULL, UNDEFINED, "", ZERO_ADDRESS}
      [] i = 4 -> InSd.can_take_back_ownership = "1"
      [] i = 5 -> InSd.is_blacklisted = "1"
      [] i = 6 -> TaxOver10Percent
      [] i = 7 -> InSd.is_proxy = "1"
      [] i = 8 -> HolderRiskIn = "high"
      [] i = 9 -> HolderRiskIn = "medium"
      [] i = 10 -> IsUnverified
      [] i = 11 -> InSd.holder_count.t = "numeric" /\ InSd.holder_count.n < 100
      [] i = 12 -> InSd.lp_total_supply.t = "numeric" /\ InSd.lp_total_supply.n < Scale
      [] OTHER -> FALSE

TablePoints == <<40, 15, 10, 15, 20, 10, 10, 25, 15, 5, 5, 15>>

RowPoints(i) == IF RowApplies(i) THEN TablePoints[i] ELSE 0

RECURSIVE PointsOf(_)
PointsOf(rows) ==
    IF rows = {} THEN 0
    ELSE LET i == CHOOSE j \in rows : TRUE IN RowPoints(i) + PointsOf(rows \ {i})

\* rows above the verified bonus in the table, and rows below it
RowsBeforeBonus == 1..9
RowsAfterBonus == 11..12

TableTotal ==
    LET before == 100 - PointsOf(RowsBeforeBonus)
        bonus == IF IsVerified THEN Min(100, before + 5)
                 ELSE before - RowPoints(10)
    IN  bonus - PointsOf(RowsAfterBonus)

\* C1: the returned score is an integer in [0,100] for every combination of
\* signals, verification status and holder analysis.
C1_ScoreInRange ==
    Scored => OutScore \in 0..100

\* C1 witness: the deductions stack below 0 and the score returned is 0.
C1_Witness ==
    Scored /\ TableTotal < 0 /\ OutScore = 0 /\ IsUnverified

\* C2: the level agrees with the returned score: safe iff score >= 80,
\* warning iff 50 <= score < 80, danger iff score < 50, exactly one of them.
C2_LevelMatchesScore ==
    Scored =>
        /\ (OutLevel = "safe") <=> (OutScore >= 80)
        /\ (OutLevel = "warning") <=> (50 <= OutScore /\ OutScore < 80)
        /\ (OutLevel = "danger") <=> (OutScore < 50)
        /\ OutLevel \in {"safe", "warning", "danger"}

\* C2 witness: a score on the boundary 80 with level safe.
C2_Witness ==
    Scored /\ OutScore = 80 /\ OutLevel = "safe"

\* C3: the score is max(0, running total) of the deduction table, the
\* verified bonus being capped at 100 where the table places it; mintable +
\* owner present + verified + holders unavailable gives 80 and level safe.
C3_ScoreIsTableTotal ==
    Scored =>
        /\ OutScore = Max(0, TableTotal)
        /\ (/\ InSd.is_mintable = "1" /\ InSd.owner_address = "0xOwner"
            /\ IsVerified /\ HolderRiskIn = "unknown"
            /\ \A i \in (1..12) \ {2, 3} : ~RowApplies(i))
           => (OutScore = 80 /\ OutLevel = "safe")

\* C3 witness: the example of the specification has been scored.
C3_Witness ==
    /\ Scored /\ InSd.is_mintable = "1" /\ InSd.owner_address = "0xOwner"
    /\ IsVerified /\ HolderRiskIn = "unknown"
    /\ \A i \in (1..12) \ {2, 3} : ~RowApplies(i)
    /\ OutScore = 80

\* C4 as claimed: with the honeypot flag set the score is <= 60.
C4_HoneypotAtMost60 ==
    (Scored /\ InSd.is_honeypot = "1") => OutScore <= 60

\* C4 amended: with the honeypot flag set the score is <= 65, and <= 60
\* unless the contract is verified (the +5 bonus does offset the -40).
C4_HoneypotAtMost65 ==
    (Scored /\ InSd.is_honeypot = "1") =>
        /\ OutScore <= 65
        /\ (~IsVerified => OutScore <= 60)

\* C4 witness: a verified honeypot with no other finding scores 65.
C4_Witness ==
    Scored /\ InSd.is_honeypot = "1" /\ IsVerified /\ OutScore = 65

\* another penalty of 10 points or more than the honeypot's applies
OtherPenaltyOf10 ==
    \E i \in {2, 3, 4, 5, 6, 7, 8, 9, 12} : RowApplies(i)

\* C5 as claimed: honeypot plus one other penalty of >= 10 points gives
\* level danger, whatever the remaining inputs.
C5_HoneypotPlusOneIsDanger ==
    (Scored /\ InSd.is_honeypot = "1" /\ OtherPenaltyOf10) => OutLevel = "danger"

\* C5 amended: honeypot plus one other penalty of >= 10 points gives level
\* danger when the contract is explicitly unverified; with verification
\* absent or verified the score is at most 55 and the level is never safe.
C5_HoneypotPlusOneNotSafe ==
    (Scored /\ InSd.is_honeypot = "1" /\ OtherPenaltyOf10) =>
        /\ IsUnverified => OutLevel = "danger"
        /\ OutScore <= 55
        /\ OutLevel # "safe"

\* C5 witness: an unverified honeypot behind a proxy scores 45, danger.
C5_Witness ==
    /\ Scored /\ InSd.is_honeypot = "1" /\ InSd.is_proxy = "1" /\ IsUnverified
    /\ OutScore = 45 /\ OutLevel = "danger"

\* the statement the code files under each row of the table
RowOfStatement(st) ==
    CASE st = "CRITICAL: Honeypot detected - Cannot sell tokens" -> 1
      [] st = "HIGH: Mint function active - Supply can be increased" -> 2
      [] st \in {"MEDIUM: Ownership not renounced",
                 "MEDIUM: Ownership status unknown (limited data)"} -> 3
      [] st = "HIGH: Owner can reclaim ownership" -> 4
      [] st = "HIGH: Blacklist function enabled" -> 5
      [] st = "MEDIUM: High tax" -> 6
      [] st = "MEDIUM: Proxy contract - Code can be changed" -> 7
      [] st = "HIGH: holder concentration" -> 8
      [] st = "MEDIUM: holder concentration" -> 9
      [] st = "LOW: Contract source code not verified" -> 10
      [] st = "LOW: Low holder count" -> 11
      [] st = "HIGH: Very low liquidity" -> 12
      [] OTHER -> 0

\* C6: risks holds exactly one statement per deduction applied, none for
\* the verified bonus, in the evaluation order of the table.
C6_RisksInTableOrder ==
    Scored =>
        /\ Len(OutRisks) = Cardinality({i \in 1..12 : RowApplies(i)})
        /\ \A k \in 1..Len(OutRisks) : RowApplies(RowOfStatement(OutRisks[k]))
        /\ \A k \in 1..(Len(OutRisks) - 1) :
               RowOfStatement(OutRisks[k]) < RowOfStatement(OutRisks[k + 1])

\* C6 witness: a verified contract with three findings: the statements stand
\* in evaluation order, LOW before HIGH, and the bonus adds none.
C6_Witness ==
    /\ Scored /\ Len(OutRisks) >= 3
    /\ OutRisks[Len(OutRisks)] = "HIGH: Very low liquidity"
    /\ OutRisks[Len(OutRisks) - 1] = "LOW: Low holder count"
    /\ OutRisks[1] = "MEDIUM: Proxy contract - Code can be changed"
    /\ IsVerified

----------------------------------------------------------------------------
(* analyzeHolderConcentration applied to ranked holder lists, followed by   *)
(* the scoring of its result as the handler does (server.js:677-680).       *)

\* shares of the supply one holder may own: 0.004%, 0.5%, 15%, 35%, 50%
Shares ==
    {4, Scale \div 200, 15 * (Scale \div 100), 35 * (Scale \div 100), Scale \div 2}

\* holder.percent as the source writes it: a fraction of the supply (GoPlus)
\* or a percentage
Encodings == {"fraction", "percentage"}
EncodedPercent(share) == IF encoding = "fraction" THEN share ELSE share * 100

\* security records the analysis result is scored with
HolderScoreInputs ==
    {SecurityRecord(hp, "0", NULL, "0", "0", Missing, Missing, "0", Missing,
                    Missing, holders, "Token", "TKN") : hp \in Flags}

InitHolders ==
    /\ pc = "input"
    /\ holders \in {None, Some(<<>>)}
    /\ encoding \in Encodings
    /\ holderAnalysis = None
    /\ securityData = None
    /\ verificationData = None
    /\ riskAssessment = None
    /\ network = "none"
    /\ addressValid = FALSE
    /\ tokenInfo = None
    /\ response = None
    /\ calls = <<>>
    /\ received = <<>>
    /\ LimiterIdle /\ BotIdle /\ OneScan

\* The provider's answer lists one more holder: ranked by balance, so no
\* holder owns more than the one before, and all of them own at most the
\* whole supply.
AddHolder ==
    /\ UNCHANGED <<received, outsideVars>>
    /\ pc = "input"
    /\ IsSome(holders)
    /\ Len(Get(holders)) < MaxHolders
    /\ \E share \in Shares :
         LET hs == Get(holders)
             pct == EncodedPercent(share)
         IN  /\ hs # <<>> => pct <= hs[Len(hs)].percent
             /\ SumPercent(hs) + pct <= EncodedPercent(Scale)
             /\ holders' = Some(Append(hs, Holder(Len(hs) + 1, pct)))
    /\ UNCHANGED <<pc, network, addressValid, tokenInfo, verificationData,
                   securityData, encoding, holderAnalysis, riskAssessment,
                   response, calls>>

\* const holderAnalysis = analyzeHolderConcentration(holders)
AnalyzeCall ==
    /\ UNCHANGED <<received, outsideVars>>
    /\ pc = "input"
    /\ holderAnalysis' = Some(analyzeHolderConcentration(holders))
    /\ pc' = "analyzed"
    /\ UNCHANGED <<network, addressValid, tokenInfo, verificationData, securityData,
                   holders, encoding, riskAssessment, response, calls>>

\* const riskAssessment = calculateRiskScore(securityData, verificationData, holderAnalysis)
ScoreAnalysis ==
    /\ UNCHANGED <<received, outsideVars>>
    /\ pc = "analyzed"
    /\ \E sd \in HolderScoreInputs, vd \in VerificationValues :
         /\ securityData' = Some(sd)
         /\ verificationData' = vd
         /\ riskAssessment' = Some(calculateRiskScore(sd, vd, holderAnalysis))
    /\ pc' = "scored"
    /\ UNCHANGED <<network, addressValid, tokenInfo, holders, encoding,
                   holderAnalysis, response, calls>>

NextHolders == AddHolder \/ AnalyzeCall \/ ScoreAnalysis

SpecHolders == InitHolders /\ [][NextHolders]_vars

----------------------------------------------------------------------------
(* Claims about the holder concentration analysis. *)

Analyzed == pc \in {"analyzed", "scored"} /\ IsSome(holderAnalysis)
ListGiven == IsSome(holders) /\ Len(holders[1]) > 0

OutAnalysis == holderAnalysis[1]

\* the sum of the percent fields of the entries ranked 1..n
RECURSIVE PercentOfRanks(_)
PercentOfRanks(ranks) ==
    IF ranks = {} THEN 0
    ELSE LET r == CHOOSE x \in ranks : TRUE
         IN  holders[1][r].percent + PercentOfRanks(ranks \ {r})

FirstTenSum == PercentOfRanks({r \in 1..Len(holders[1]) : r <= 10})

\* S*100 below 1, S from 1 on
NormalizedSum == IF FirstTenSum < Scale THEN 100 * FirstTenSum ELSE FirstTenSum

\* r is x rounded to two decimal places
RoundedToCents(r, x) ==
    /\ r % (Scale \div 100) = 0
    /\ 2 * (r - x) <= Scale \div 100
    /\ 2 * (x - r) < Scale \div 100

\* C7 as claimed: top10Percentage is S*100 when the sum S of the first ten
\* percent fields is below 1 and S itself otherwise.
C7_Top10IsNormalizedSum ==
    (Analyzed /\ ListGiven) => OutAnalysis.top10Percentage = NormalizedSum

\* C7 amended: top10Percentage is S*100 (S < 1) or S (S >= 1) rounded to two
\* decimal places, S being the sum over the first ten entries only.
C7_Top10IsRoundedNormalizedSum ==
    (Analyzed /\ ListGiven) =>
        /\ OutAnalysis.available
        /\ RoundedToCents(OutAnalysis.top10Percentage, NormalizedSum)

\* C7 witness: an eleventh holder with a share is ignored, and the sum of
\* the first ten, a fraction, is reported times 100 after rounding.
C7_Witness ==
    /\ Analyzed /\ ListGiven
    /\ Len(holders[1]) > 10 /\ holders[1][11].percent > 0
    /\ FirstTenSum < Scale
    /\ OutAnalysis.top10Percentage # NormalizedSum
    /\ RoundedToCents(OutAnalysis.top10Percentage, 100 * FirstTenSum)

\* C8: top10Percentage is on the 0-100 scale: when the source reports the
\* holders' percent as fractions of the supply (as GoPlus does) and the
\* first ten own the share p, the value reported is 100*p to two decimals,
\* also when they own the whole supply (fractions summing to exactly 1).
C8_FractionsOnPercentScale ==
    (Analyzed /\ ListGiven /\ encoding = "fraction") =>
        RoundedToCents(OutAnalysis.top10Percentage, 100 * FirstTenSum)

BandOf(p) ==
    CASE p > 50 * Scale -> "high"
      [] p > 15 * Scale /\ p <= 50 * Scale -> "medium"
      [] p <= 15 * Scale -> "low"

HolderPoints(p) ==
    CASE BandOf(p) = "high" -> 25
      [] BandOf(p) = "medium" -> 15
      [] OTHER -> 0

\* C9: the normalized top-10 percentage P is banded high iff P > 50, medium
\* iff 15 < P <= 50, low iff P <= 15, and the score of the same scan takes
\* the -25 / -15 / no holder deduction by the same thresholds.
C9_BandsAndDeductionAgree ==
    /\ (Analyzed /\ ListGiven) => OutAnalysis.risk = BandOf(NormalizedSum)
    /\ (Scored /\ ListGiven) =>
        /\ (\E k \in 1..Len(OutRisks) : OutRisks[k] = "HIGH: holder concentration")
               <=> NormalizedSum > 50 * Scale
        /\ (\E k \in 1..Len(OutRisks) : OutRisks[k] = "MEDIUM: holder concentration")
               <=> (NormalizedSum > 15 * Scale /\ NormalizedSum <= 50 * Scale)
        /\ ~IsVerified =>
               OutScore = 100 - (IF InSd.is_honeypot = "1" THEN 40 ELSE 0)
                              - HolderPoints(NormalizedSum)
                              - (IF IsUnverified THEN 5 ELSE 0)

\* C9 witness: exactly 50% is banded medium and costs 15 points.
C9_Witness ==
    /\ Scored /\ ListGiven /\ NormalizedSum = 50 * Scale
    /\ OutAnalysis.risk = "medium"
    /\ verificationData = None /\ InSd.is_honeypot = "0" /\ OutScore = 85

----------------------------------------------------------------------------
(* Provider clients, server.js:232-396.  Each takes the raw outcome of its  *)
(* HTTP / RPC call and returns the typed result the handler reads.          *)

\* own keys of RPC_ENDPOINTS and of CHAIN_IDS, server.js:67-107
SupportedNetworks == {"ethereum", "bsc", "polygon", "solana"}

\* own keys of EXPLORER_APIS, server.js:88-92
ExplorerNetworks == {"ethereum", "bsc", "polygon"}

\* RPC_ENDPOINTS, CHAIN_IDS and EXPLORER_APIS are object literals: besides
\* their own keys, table[key] finds the members of Object.prototype
\* (constructor, toString, valueOf, hasOwnProperty, __proto__, ...), all of
\* them truthy.  One such key stands for them.
InheritedKeys == {"constructor"}

\* table[key] is truthy, as tested by !RPC_ENDPOINTS[network] (server.js:497)
\* and !EXPLORER_APIS[network] (server.js:233, 280)
HasEntry(ownKeys, key) == key \in ownKeys \/ key \in InheritedKeys

\* :network matches any path segment
RequestedNetworks == SupportedNetworks \cup {"tron"} \cup InheritedKeys

\* raw outcomes of the explorer's tokeninfo call: status '1' with a token,
\* with a token that has no name, another status, status '1' with an empty
\* result array (result[0].tokenName raises inside the try), an exception of
\* axios (non-2xx, network error, timeout)
ExplorerAnswers ==
    {[kind |-> "ok", tokenName |-> "ExplorerToken", symbol |-> "EXP"],
     [kind |-> "ok", tokenName |-> UNDEFINED, symbol |-> UNDEFINED],
     [kind |-> "notok"],
     [kind |-> "malformed"],
     [kind |-> "throw"]}

\* `${apiUrl}?module=...` (server.js:243, 288) is an explorer URL only for an
\* own key of EXPLORER_APIS; for an inherited key apiUrl is a function, the
\* string is no URL of the explorer and the request fails inside the try
ExplorerReached(net) == net \in ExplorerNetworks

\* faulty variant, for sensitivity checks: the explorer is never asked
ExplorerRequest_None(net, call) == <<>>

ExplorerRequest(net, call) == IF ExplorerReached(net) THEN <<call>> ELSE <<>>

\* faulty variant, for sensitivity checks: a call without a timeout to a
\* provider that stays silent
AnswersOf_Silent(net, answers) == {}

\* what the await of an explorer call can resume with: an answer, or the
\* exception that the timeout of the call raises (server.js:245-248, 290-293)
AnswersOf(net, answers) ==
    IF ExplorerReached(net) THEN answers ELSE {[kind |-> "throw"]}

OrUnknown(v) == IF v \in {UNDEFINED, NULL, ""} THEN "Unknown" ELSE v

\* getTokenInfoFromExplorer, server.js:232-274
getTokenInfoFromExplorer(net, raw) ==
    IF net = "solana" \/ ~HasEntry(ExplorerNetworks, net) THEN [found |-> FALSE]
    ELSE IF raw.kind = "ok"
    THEN [found |-> TRUE, name |-> OrUnknown(raw.tokenName),
          symbol |-> OrUnknown(raw.symbol), decimals |-> 18,
          totalSupply |-> "1000000", verified |-> JsTrue]
    ELSE [found |-> FALSE]

\* raw outcomes of the explorer's getsourcecode call: status '1' with and
\* without source code, another status or an empty result, an exception
VerificationAnswers ==
    {[kind |-> "ok", SourceCode |-> "contract T {}"],
     [kind |-> "ok", SourceCode |-> ""],
     [kind |-> "notok"],
     [kind |-> "throw"]}

\* getContractVerificationStatus, server.js:279-318
getContractVerificationStatus(net, raw) ==
    IF net = "solana" \/ ~HasEntry(ExplorerNetworks, net) THEN [verified |-> JsFalse]
    ELSE IF raw.kind = "ok"
    THEN [verified |-> IF raw.SourceCode = "" THEN "" ELSE JsTrue,
          contractName |-> "T", license |-> "None"]
    ELSE [verified |-> JsFalse]

\* DEX pairs of a token: <<liquidity.usd, baseToken.name, baseToken.symbol>>
DexAnswers ==
    {[kind |-> "pairs", pairs |-> <<[usd |-> 5, name |-> "DexToken", symbol |-> "DEX"]>>],
     [kind |-> "pairs", pairs |-> <<[usd |-> 1, name |-> "Thin", symbol |-> "THN"],
                                    [usd |-> 5, name |-> "DexToken", symbol |-> "DEX"],
                                    [usd |-> 5, name |-> "Late", symbol |-> "LTE"]>>],
     [kind |-> "pairs", pairs |-> <<>>],
     [kind |-> "malformed"],
     [kind |-> "throw"]}

\* pairs.sort((a, b) => b.liquidity.usd - a.liquidity.usd)[0]: the sort is
\* stable, so the first pair of the largest liquidity
MainPair(pairs) ==
    LET best == CHOOSE i \in 1..Len(pairs) :
                    /\ \A j \in 1..Len(pairs) : pairs[j].usd <= pairs[i].usd
                    /\ \A j \in 1..(i - 1) : pairs[j].usd < pairs[i].usd
    IN  pairs[best]

\* getTokenInfoFromDexScreener, server.js:323-348
getTokenInfoFromDexScreener(raw) ==
    IF raw.kind = "pairs" /\ Len(raw.pairs) > 0
    THEN [name |-> MainPair(raw.pairs).name, symbol |-> MainPair(raw.pairs).symbol,
          found |-> TRUE]
    ELSE [name |-> "Unknown Token", symbol |-> "UNKNOWN", found |-> FALSE]

\* raw outcomes of connection.getParsedAccountInfo raced with the timeout: a
\* parsed mint account with each authority null or an address, a parsed
\* account that is no mint (its info has neither field), an account without
\* parsed data, the timeout, an exception
SolanaAnswers ==
    {[kind |-> "parsed", mintAuthority |-> ma, freezeAuthority |-> fa] :
        ma \in {NULL, "MintAuthority"}, fa \in {NULL, "FreezeAuthority"}}
    \cup {[kind |-> "parsed", mintAuthority |-> UNDEFINED, freezeAuthority |-> UNDEFINED]}
    \cup {[kind |-> "unparsed"], [kind |-> "timeout"], [kind |-> "throw"]}

\* getSolanaTokenOwnership, server.js:353-396
getSolanaTokenOwnership(raw) ==
    IF raw.kind = "parsed"
    THEN [found |-> TRUE, mintAuthority |-> raw.mintAuthority,
          freezeAuthority |-> raw.freezeAuthority,
          isOwnershipRenounced |-> raw.mintAuthority = NULL,
          canFreeze |-> raw.freezeAuthority # NULL,
          decimals |-> 6, supply |-> "5000000"]
    ELSE [found |-> FALSE]

\* ranked holder lists a GoPlus record may carry (percent as fractions):
\* no field, an empty list, one holder of 10%, one holder of 60%, a list
\* with a null entry
GoPlusHolderLists ==
    {None, Some(<<>>), Some(<<Holder(1, Scale \div 10)>>),
     Some(<<Holder(1, 6 * (Scale \div 10))>>), Some(<<NullEntry>>)}

GoPlusRecords ==
    {SecurityRecord(hp, "0", owner, "0", "0", Missing, Missing, "0", Missing,
                    Missing, hs, name, name) :
        hp \in Flags, owner \in {"0xOwner", ZERO_ADDRESS, UNDEFINED},
        hs \in GoPlusHolderLists, name \in {"GoPlusToken", UNDEFINED}}

\* raw outcomes of the GoPlus call: a record under the address key, a
\* result without the key, a body without result, a 4xx status, an
\* exception (5xx, network error, timeout)
GoPlusAnswers ==
    {[kind |-> "record", record |-> r] : r \in GoPlusRecords}
    \cup {[kind |-> "miss"], [kind |-> "noresult"], [kind |-> "status4xx"],
          [kind |-> "throw"]}

\* the try block of server.js:561-589: what it leaves in securityData and
\* goplusError, or that axios.get raised (threw)
GoPlusTry(raw) ==
    CASE raw.kind = "record" ->
            [threw |-> FALSE, securityData |-> Some(raw.record), goplusError |-> NULL]
      [] raw.kind = "miss" ->
            [threw |-> FALSE, securityData |-> None,
             goplusError |-> "Token not found in GoPlus database"]
      [] raw.kind = "noresult" ->
            [threw |-> FALSE, securityData |-> None,
             goplusError |-> "GoPlus API returned status 200"]
      [] raw.kind = "status4xx" ->
            [threw |-> FALSE, securityData |-> None,
             goplusError |-> "GoPlus API returned status 4xx"]
      [] OTHER ->
            [threw |-> TRUE, securityData |-> None, goplusError |-> NULL]

\* faulty variant, for sensitivity checks: the exception is not caught
GoPlusCatch_Rethrow(t) == t

\* catch (error) { goplusError = error.message }, server.js:590-593
GoPlusCatch(t) ==
    IF t.threw
    THEN [threw |-> FALSE, securityData |-> None, goplusError |-> "error.message"]
    ELSE t

\* securityData after the try / catch of server.js:561-593
GoPlusSecurityData(raw) == GoPlusCatch(GoPlusTry(raw)).securityData

\* goplusError after the same block
GoPlusError(raw) == GoPlusCatch(GoPlusTry(raw)).goplusError

----------------------------------------------------------------------------
(* GET /api/check-token/:network/:address, server.js:493-735.  The handler  *)
(* is one async function: an action is the code from one await to the next. *)

\* let tokenInfo = {...}, server.js:516-523
InitialTokenInfo(net) ==
    [name |-> "Unknown", symbol |-> "Unknown",
     decimals |-> IF net = "solana" THEN 9 ELSE 18,
     totalSupply |-> "0", ownerAddress |-> NULL, verified |-> JsFalse]

\* faulty variant, for sensitivity checks: the record's names always win
FillFromGoPlus_Overwrite(ti, sd) ==
    [ti EXCEPT
        !.name = IF sd.token_name \notin {UNDEFINED, NULL, ""}
                 THEN sd.token_name ELSE @,
        !.symbol = IF sd.token_symbol \notin {UNDEFINED, NULL, ""}
                   THEN sd.token_symbol ELSE @]

\* faulty variant, for sensitivity checks: the record's names are not used
FillFromGoPlus_Never(ti, sd) == ti

\* server.js:577-582: the record names the token only where the explorer did not
FillFromGoPlus(ti, sd) ==
    [ti EXCEPT
        !.name = IF ti.name = "Unknown" /\ sd.token_name \notin {UNDEFINED, NULL, ""}
                 THEN sd.token_name ELSE @,
        !.symbol = IF ti.symbol = "Unknown" /\ sd.token_symbol \notin {UNDEFINED, NULL, ""}
                   THEN sd.token_symbol ELSE @]

\* securityData.holders || []
HoldersOrEmpty(sd) == IF IsSome(sd.holders) THEN sd.holders ELSE Some(<<>>)

\* faulty variant, for sensitivity checks: the freeze authority is not mapped
FallbackSecurityData_NoFreeze(ti, ownership) ==
    SecurityRecord("0",
                   IF ownership.found /\ ownership.mintAuthority # NULL THEN "1" ELSE "0",
                   IF ownership.found THEN ownership.mintAuthority
                   ELSE SOLANA_OWNER_UNKNOWN,
                   "0", "0",
                   NumStr(0), NumStr(0), "0", NotANumber, NotANumber,
                   Some(<<>>), ti.name, ti.symbol)

\* the securityData object of the Solana fallback, server.js:612-658
FallbackSecurityData(ti, ownership) ==
    SecurityRecord("0",
                   IF ownership.found /\ ownership.mintAuthority # NULL THEN "1" ELSE "0",
                   IF ownership.found THEN ownership.mintAuthority
                   ELSE SOLANA_OWNER_UNKNOWN,
                   "0",
                   IF ownership.found /\ ownership.canFreeze THEN "1" ELSE "0",
                   NumStr(0), NumStr(0), "0", NotANumber, NotANumber,
                   Some(<<>>), ti.name, ti.symbol)

\* tokenInfo after the ownership read, server.js:618-628
FallbackTokenInfo(ti, ownership) ==
    IF ownership.found
    THEN [ti EXCEPT !.totalSupply = ownership.supply, !.decimals = ownership.decimals]
    ELSE ti

\* the body of the 200 response, server.js:683-722
ScanResult(ti, sd, vdOpt, ha, ra) ==
    [status |-> 200,
     tokenInfo |-> ti,
     security |->
        [isHoneypot |-> sd.is_honeypot = "1",
         canSell |-> sd.is_honeypot # "1",
         ownerAddress |-> IF sd.owner_address \in {UNDEFINED, NULL, ""}
                          THEN ti.ownerAddress ELSE sd.owner_address,
         isOwnershipRenounced |-> sd.owner_address \in {ZERO_ADDRESS, NULL},
         isMintable |-> sd.is_mintable = "1",
         hasBlacklist |-> sd.is_blacklisted = "1",
         isProxy |-> sd.is_proxy = "1",
         topHolders |-> Get(HoldersOrEmpty(sd))],
     holderConcentration |-> ha,
     verification |-> IF IsSome(vdOpt) THEN Get(vdOpt) ELSE [verified |-> JsFalse],
     riskAssessment |-> ra]

\* the body of the 500 response of the handler's outer catch, server.js:727-734
InternalFailure(message) ==
    [status |-> 500, error |-> "Internal server error", message |-> message]

\* faulty variant, for sensitivity checks: the 404 carries no profile
SecurityDataUnavailable_NoProfile(ti, goplusError) ==
    [status |-> 404, error |-> "Unable to fetch security data",
     details |-> goplusError, explorerData |-> None]

\* the body of the 404 response, server.js:667-674
SecurityDataUnavailable(ti, goplusError) ==
    [status |-> 404, error |-> "Unable to fetch security data",
     details |-> goplusError,
     explorerData |-> IF ti.name # "Unknown" THEN Some(ti) ELSE None]

Init ==
    /\ pc = "request"
    /\ network \in RequestedNetworks
    /\ addressValid \in BOOLEAN
    /\ tokenInfo = None
    /\ verificationData = None
    /\ securityData = None
    /\ holders = None
    /\ encoding = "fraction"
    /\ holderAnalysis = None
    /\ riskAssessment = None
    /\ response = None
    /\ calls = <<>>
    /\ received = <<>>
    /\ LimiterIdle /\ BotIdle /\ OneScan

\* server.js:495-514: an unsupported network or a malformed address is
\* answered 400 at once
Reject ==
    /\ UNCHANGED <<received, outsideVars>>
    /\ pc = "request"
    /\ ~HasEntry(SupportedNetworks, network) \/ ~addressValid
    /\ response' = Some([status |-> 400,
                         error |-> IF ~HasEntry(SupportedNetworks, network)
                                   THEN "Unsupported network"
                                   ELSE "Invalid token address format"])
    /\ pc' = "done"
    /\ UNCHANGED <<network, addressValid, tokenInfo, verificationData, securityData,
                   holders, encoding, holderAnalysis, riskAssessment, calls>>

\* server.js:516-562: a valid request declares tokenInfo and issues its
\* first provider call, the explorer's on EVM networks and GoPlus on Solana
Accept ==
    /\ UNCHANGED <<received, outsideVars>>
    /\ pc = "request"
    /\ HasEntry(SupportedNetworks, network) /\ addressValid
    /\ tokenInfo' = Some(InitialTokenInfo(network))
    /\ IF network # "solana"
       THEN /\ calls' = calls \o ExplorerRequest(network, "explorer.tokeninfo")
            /\ pc' = "await_explorer"
       ELSE calls' = Append(calls, "goplus") /\ pc' = "await_goplus"
    /\ UNCHANGED <<network, addressValid, verificationData, securityData, holders,
                   encoding, holderAnalysis, riskAssessment, response>>

\* server.js:531-542: the explorer's token data is taken over when found,
\* then the verification status is asked for
ExplorerReturns ==
    /\ UNCHANGED outsideVars
    /\ pc = "await_explorer"
    /\ \E raw \in AnswersOf(network, ExplorerAnswers) :
         LET explorerData == getTokenInfoFromExplorer(network, raw)
             ti == Get(tokenInfo)
         IN  /\ tokenInfo' =
                    IF explorerData.found
                    THEN Some([ti EXCEPT !.name = explorerData.name,
                                         !.symbol = explorerData.symbol,
                                         !.decimals = explorerData.decimals,
                                         !.totalSupply = explorerData.totalSupply,
                                         !.verified = explorerData.verified])
                    ELSE tokenInfo
             /\ received' = Append(received, raw)
    /\ calls' = calls \o ExplorerRequest(network, "explorer.getsourcecode")
    /\ pc' = "await_verification"
    /\ UNCHANGED <<network, addressValid, verificationData, securityData, holders,
                   encoding, holderAnalysis, riskAssessment, response>>

\* faulty variant, for sensitivity checks: the explorer's provisional flag stays
WithVerification_KeepProvisional(ti, vd) == ti

\* tokenInfo.verified = verificationData.verified, server.js:543
WithVerification(ti, vd) == [ti EXCEPT !.verified = vd.verified]

\* server.js:542-562: the verification status overwrites tokenInfo.verified,
\* then GoPlus is asked
VerificationReturns ==
    /\ UNCHANGED outsideVars
    /\ pc = "await_verification"
    /\ \E raw \in AnswersOf(network, VerificationAnswers) :
         LET vd == getContractVerificationStatus(network, raw)
         IN  /\ verificationData' = Some(vd)
             /\ tokenInfo' = Some(WithVerification(Get(tokenInfo), vd))
             /\ received' = Append(received, raw)
    /\ calls' = Append(calls, "goplus")
    /\ pc' = "await_goplus"
    /\ UNCHANGED <<network, addressValid, securityData, holders, encoding,
                   holderAnalysis, riskAssessment, response>>

\* server.js:676-725: analysis, score and the 200 response
Respond(ti, sd) ==
    LET ha == analyzeHolderConcentration(HoldersOrEmpty(sd))
        ra == calculateRiskScore(sd, verificationData, Some(ha))
    IN  /\ tokenInfo' = Some(ti)
        /\ securityData' = Some(sd)
        /\ holders' = HoldersOrEmpty(sd)
        /\ holderAnalysis' = Some(ha)
        /\ riskAssessment' = Some(ra)
        /\ response' = Some(ScanResult(ti, sd, verificationData, ha, ra))
        /\ pc' = "done"

\* faulty variant, for sensitivity checks: no fallback for Solana
NeedsFallback_Never(net, sdOpt) == FALSE

\* faulty variant, for sensitivity checks: the fallback runs on every Solana scan
NeedsFallback_Always(net, sdOpt) == net = "solana"

\* if (!securityData && network === 'solana'), server.js:596
NeedsFallback(net, sdOpt) == ~IsSome(sdOpt) /\ net = "solana"

\* if (!securityData && network !== 'solana'), server.js:667
NoSecurityData(net, sdOpt) == ~IsSome(sdOpt) /\ net # "solana"

\* server.js:571-735: with a record the scan is scored and answered; without
\* one an EVM scan is answered 404 and a Solana scan asks DexScreener.  An
\* exception that leaves the GoPlus block, or the read of securityData.holders
\* (server.js:677) on null, ends in the outer catch.
GoPlusReturns ==
    /\ UNCHANGED outsideVars
    /\ pc = "await_goplus"
    /\ \E raw \in GoPlusAnswers :
         LET sdOpt == GoPlusSecurityData(raw)
         IN  /\ received' = Append(received, raw)
             /\ IF GoPlusCatch(GoPlusTry(raw)).threw
                THEN /\ response' = Some(InternalFailure("error.message"))
                     /\ pc' = "done"
                     /\ UNCHANGED <<tokenInfo, securityData, holders, holderAnalysis,
                                    riskAssessment, calls>>
                ELSE IF NeedsFallback(network, sdOpt)
                THEN /\ calls' = Append(calls, "dexscreener")
                     /\ pc' = "await_dexscreener"
                     /\ securityData' = sdOpt
                     /\ UNCHANGED <<tokenInfo, holders, holderAnalysis,
                                    riskAssessment, response>>
                ELSE IF NoSecurityData(network, sdOpt)
                THEN /\ response' =
                            Some(SecurityDataUnavailable(Get(tokenInfo), GoPlusError(raw)))
                     /\ pc' = "done"
                     /\ UNCHANGED <<tokenInfo, securityData, holders, holderAnalysis,
                                    riskAssessment, calls>>
                ELSE IF IsSome(sdOpt)
                THEN /\ Respond(FillFromGoPlus(Get(tokenInfo), Get(sdOpt)), Get(sdOpt))
                     /\ UNCHANGED calls
                ELSE /\ response' =
                            Some(InternalFailure("Cannot read properties of null"))
                     /\ pc' = "done"
                     /\ UNCHANGED <<tokenInfo, securityData, holders, holderAnalysis,
                                    riskAssessment, calls>>
    /\ UNCHANGED <<network, addressValid, verificationData, encoding>>

\* server.js:600-612: the DEX names the token, or it is named unknown; then
\* the mint account is read from the chain
DexScreenerReturns ==
    /\ UNCHANGED outsideVars
    /\ pc = "await_dexscreener"
    /\ \E raw \in DexAnswers :
         LET dexInfo == getTokenInfoFromDexScreener(raw)
         IN  /\ tokenInfo' =
                    Some([Get(tokenInfo) EXCEPT
                            !.name = IF dexInfo.found THEN dexInfo.name
                                     ELSE "Unknown Solana Token",
                            !.symbol = IF dexInfo.found THEN dexInfo.symbol
                                       ELSE "UNKNOWN"])
             /\ received' = Append(received, raw)
    /\ calls' = Append(calls, "solana.getParsedAccountInfo")
    /\ pc' = "await_solana"
    /\ UNCHANGED <<network, addressValid, verificationData, securityData, holders,
                   encoding, holderAnalysis, riskAssessment, response>>

\* server.js:612-725: the signals are synthesized from the mint account and
\* the scan is scored and answered
SolanaReturns ==
    /\ UNCHANGED outsideVars
    /\ pc = "await_solana"
    /\ \E raw \in SolanaAnswers :
         LET ownership == getSolanaTokenOwnership(raw)
             ti == FallbackTokenInfo(Get(tokenInfo), ownership)
         IN  /\ Respond(ti, FallbackSecurityData(ti, ownership))
             /\ received' = Append(received, raw)
    /\ UNCHANGED <<network, addressValid, verificationData, encoding, calls>>

Next ==
    \/ Reject
    \/ Accept
    \/ ExplorerReturns
    \/ VerificationReturns
    \/ GoPlusReturns
    \/ DexScreenerReturns
    \/ SolanaReturns

Spec == Init /\ [][Next]_vars

----------------------------------------------------------------------------
(* Claims about the scan. *)

Answered200 == pc = "done" /\ IsSome(response) /\ response[1].status = 200

\* the scan took the Solana fallback path: GoPlus had no record
TookFallback ==
    \E k \in 1..Len(calls) : calls[k] = "solana.getParsedAccountInfo"

HolderStatements == {"HIGH: holder concentration", "MEDIUM: holder concentration"}

\* C10: no holder data is never reported as zero concentration: an empty or
\* absent list gives available = false and risk unknown, and a Solana scan
\* that took the fallback path returns holderConcentration.available = false
\* and takes no holder deduction.
C10_NoDataIsNotZeroConcentration ==
    /\ analyzeHolderConcentration(None).available = FALSE
    /\ analyzeHolderConcentration(None).risk = "unknown"
    /\ (Answered200 /\ holders[1] = <<>>) =>
          /\ response[1].holderConcentration.available = FALSE
          /\ response[1].holderConcentration.risk = "unknown"
    /\ (Answered200 /\ TookFallback) =>
          /\ network = "solana"
          /\ holders[1] = <<>>
          /\ response[1].holderConcentration.available = FALSE
          /\ response[1].holderConcentration.risk # "low"
          /\ \A k \in 1..Len(response[1].riskAssessment.risks) :
                 response[1].riskAssessment.risks[k] \notin HolderStatements

\* C10 witness: a Solana scan answered from the chain after a GoPlus miss.
C10_Witness ==
    /\ Answered200 /\ TookFallback /\ network = "solana"
    /\ securityData[1].is_mintable = "1"
    /\ response[1].holderConcentration.available = FALSE
    /\ response[1].riskAssessment.score = 75

\* the request names a supported network and a well-formed address
Validated == network \in SupportedNetworks /\ addressValid

EvmScan == Validated /\ network # "solana"
SolanaScan == Validated /\ network = "solana"

Done == pc = "done" /\ IsSome(response)
StatusIs(code) == Done /\ response[1].status = code

Called(call) == \E k \in 1..Len(calls) : calls[k] = call

\* C12: a request with an unsupported network key or with an address that
\* fails validation is answered 400 before any provider call is issued; no
\* provider is ever called for such a request.
C12_BadRequestNeverReachesProviders ==
    ~Validated =>
        /\ calls = <<>>
        /\ Done => response[1].status = 400

\* the states of one scan from which the handler has more code to run
Running == pc \in {"await_explorer", "await_verification", "await_goplus",
                   "await_dexscreener", "await_solana"}

\* C13: for a validated scan, 'security data unavailable' (404) is the
\* outcome exactly when the network is an EVM network and GoPlus yielded no
\* record; it is terminal (no holder analysis or score exists with it, and
\* the handler takes no further step); a Solana scan never ends in it:
\* whatever DexScreener and the chain return, it is scored.
C13_UnavailableOnlyOnEvmMiss ==
    /\ (Validated /\ StatusIs(404)) =>
          /\ network # "solana"
          /\ securityData = None
          /\ holderAnalysis = None /\ riskAssessment = None
          /\ ~ENABLED Next
    /\ (EvmScan /\ Done) =>
          (response[1].status = 404 <=> securityData = None)
    /\ (EvmScan /\ Done /\ IsSome(securityData)) =>
          response[1].status = 200 /\ IsSome(riskAssessment)
    /\ (SolanaScan /\ Done) =>
          /\ response[1].status = 200
          /\ IsSome(securityData) /\ IsSome(riskAssessment)
    /\ (SolanaScan /\ Running) => ENABLED Next

\* C13 witness: a BSC scan ended 404 after GoPlus answered without the token.
C13_Witness ==
    /\ StatusIs(404) /\ network = "bsc" /\ addressValid
    /\ response[1].details = "Token not found in GoPlus database"
    /\ calls = <<"explorer.tokeninfo", "explorer.getsourcecode", "goplus">>

\* what each provider client returns for an outcome other than a usable
\* answer: the typed 'not found' value, never an exception
FailuresAreNotFound ==
    /\ \A net \in ExplorerNetworks, raw \in ExplorerAnswers :
          raw.kind # "ok" => getTokenInfoFromExplorer(net, raw) = [found |-> FALSE]
    /\ \A net \in ExplorerNetworks, raw \in VerificationAnswers :
          raw.kind # "ok" =>
              getContractVerificationStatus(net, raw) = [verified |-> JsFalse]
    /\ \A raw \in DexAnswers :
          (raw.kind # "pairs" \/ raw.pairs = <<>>) =>
              ~getTokenInfoFromDexScreener(raw).found
    /\ \A raw \in SolanaAnswers :
          raw.kind # "parsed" => getSolanaTokenOwnership(raw) = [found |-> FALSE]
    /\ \A raw \in GoPlusAnswers :
          raw.kind # "record" =>
              /\ ~GoPlusCatch(GoPlusTry(raw)).threw
              /\ GoPlusSecurityData(raw) = None
              /\ GoPlusError(raw) # NULL

\* C14: whatever the provider calls answer (a usable answer, not found, a
\* refused status, a malformed or empty payload, an exception, a timeout), a
\* validated scan never ends 500: each failure is turned into 'not found',
\* tokenInfo exists with its defaults, and the scan ends 200 or, on EVM
\* networks only, 404.
C14_ProviderFailuresNeverEnd500 ==
    /\ FailuresAreNotFound
    /\ (Validated /\ (Running \/ Done)) =>
          /\ IsSome(tokenInfo)
          /\ DOMAIN tokenInfo[1] = DOMAIN InitialTokenInfo(network)
    /\ (Validated /\ Done) =>
          /\ response[1].status \in {200, 404}
          /\ response[1].status = 404 => network # "solana"
          /\ response[1].status = 200 =>
                response[1].tokenInfo = tokenInfo[1] /\ IsSome(riskAssessment)

\* C14 witness: an Ethereum scan for which the explorer gave nothing and the
\* GoPlus request raised: the exception became the 404's details.
C14_Witness ==
    /\ StatusIs(404) /\ network = "ethereum" /\ addressValid
    /\ response[1].details = "error.message"
    /\ tokenInfo[1] = InitialTokenInfo("ethereum")

\* the explorer's tokeninfo call gave no token on this EVM scan: only that
\* call's answer replaces the initial totalSupply on an EVM network
ExplorerMetadataFailed ==
    EvmScan /\ IsSome(tokenInfo) /\ tokenInfo[1].totalSupply = "0"

Statements == {OutRisks[k] : k \in 1..Len(OutRisks)}

\* the name (symbol) the record gives the token, 'Unknown' where it has none
RecordName == IF InSd.token_name \in {UNDEFINED, NULL, ""} THEN "Unknown"
              ELSE InSd.token_name
RecordSymbol == IF InSd.token_symbol \in {UNDEFINED, NULL, ""} THEN "Unknown"
                ELSE InSd.token_symbol

\* C15 as stated: on an EVM scan where the explorer metadata call fails and
\* GoPlus returns a record, the ScanResult's tokenInfo.name and symbol are
\* those of the record (read as: where the record has them) and verification
\* is {verified:false} (read as: reports the contract as not verified).
C15_NamesFromRecordAndUnverified ==
    (EvmScan /\ StatusIs(200) /\ ExplorerMetadataFailed) =>
        /\ response[1].tokenInfo.name = RecordName
        /\ response[1].tokenInfo.symbol = RecordSymbol
        /\ ~ToBoolean(response[1].verification.verified)

\* C15, amended: on such a scan name and symbol are those of the record
\* where the record carries them and stay 'Unknown' where it does not;
\* verification is what the verification call returned, whether or not the
\* metadata call failed.  On EVM networks verificationData is never null once
\* the verification call has returned, so every EVM score has the verified
\* bonus or the unverified deduction applied.
C15_NamesFromRecordWhenPresent ==
    /\ (EvmScan /\ (pc = "await_goplus" \/ Done)) => IsSome(verificationData)
    /\ (EvmScan /\ StatusIs(200)) =>
          /\ response[1].verification = verificationData[1]
          /\ response[1].tokenInfo.verified = verificationData[1].verified
          /\ IsVerified \/ IsUnverified
          /\ IsUnverified <=> "LOW: Contract source code not verified" \in Statements
          /\ OutScore = Max(0, TableTotal)
    /\ (EvmScan /\ StatusIs(200) /\ ExplorerMetadataFailed) =>
          /\ response[1].tokenInfo.name = RecordName
          /\ response[1].tokenInfo.symbol = RecordSymbol

\* C15 witness: the metadata call failed, the verification call reported a
\* verified contract and GoPlus named the token.
C15_Witness ==
    /\ EvmScan /\ StatusIs(200) /\ ExplorerMetadataFailed
    /\ response[1].tokenInfo.name = "GoPlusToken"
    /\ response[1].verification.verified = JsTrue
    /\ "contractName" \in DOMAIN response[1].verification

\* the mint account could not be read on this fallback scan: only a found
\* account replaces the initial totalSupply on Solana
ChainStateFailed ==
    SolanaScan /\ TookFallback /\ Done /\ tokenInfo[1].totalSupply = "0"

\* what calculateRiskScore deducts for an owner_address, all else clean
OwnershipPenalty(owner) ==
    100 - calculateRiskScore(
              SecurityRecord("0", "0", owner, "0", "0", NumStr(0), NumStr(0), "0",
                             NotANumber, NotANumber, Some(<<>>), "T", "T"),
              None, Some(Unavailable)).score

\* the owner addresses a found mint account or a GoPlus record can carry
RealOwners ==
    {raw.mintAuthority : raw \in {a \in SolanaAnswers : a.kind = "parsed"}}
        \cup {r.owner_address : r \in GoPlusRecords}

ScoreWithoutVerification ==
    Max(0, 100 - PointsOf(RowsBeforeBonus) - PointsOf(RowsAfterBonus))

\* C18 as stated: on every Solana scan the verification status is absent
\* rather than false: the scoring applies neither the +5 nor the -5, and the
\* verification of the ScanResult is not {verified:false}.
C18_SolanaVerificationAbsent ==
    (SolanaScan /\ StatusIs(200)) =>
        /\ OutScore = ScoreWithoutVerification
        /\ response[1].verification # [verified |-> JsFalse]

\* C18, amended: on every Solana scan verificationData stays null, so the
\* scoring applies neither the +5 nor the -5 and gives no 'not verified'
\* statement; the ScanResult still reports verification {verified:false}
\* and tokenInfo.verified false.
C18_SolanaUnscoredButReportedFalse ==
    /\ (SolanaScan /\ (Running \/ Done)) => verificationData = None
    /\ (SolanaScan /\ StatusIs(200)) =>
          /\ ~IsVerified /\ ~IsUnverified
          /\ OutScore = ScoreWithoutVerification
          /\ OutScore = Max(0, TableTotal)
          /\ "LOW: Contract source code not verified" \notin Statements
          /\ response[1].verification = [verified |-> JsFalse]
          /\ response[1].tokenInfo.verified = JsFalse

\* C18 witness: a Solana token GoPlus knows, with no finding: score 100,
\* reported as not verified.
C18_Witness ==
    /\ SolanaScan /\ StatusIs(200) /\ ~TookFallback
    /\ OutScore = 100 /\ OutRisks = <<>>
    /\ response[1].verification = [verified |-> JsFalse]

EvmCallOrder == <<"explorer.tokeninfo", "explorer.getsourcecode", "goplus">>

\* C19: within one EVM scan the provider calls are issued in the order
\* explorer metadata, explorer verification, security heuristics, each only
\* after the previous one has returned (or timed out), and DexScreener and
\* the Solana RPC are never called.
C19_EvmCallsInOrder ==
    EvmScan =>
        /\ Len(calls) <= 3 /\ calls = SubSeq(EvmCallOrder, 1, Len(calls))
        /\ ~Called("dexscreener") /\ ~Called("solana.getParsedAccountInfo")
        /\ pc = "request" => calls = <<>>
        /\ pc = "await_explorer" => Len(calls) = 1
        /\ pc = "await_verification" => Len(calls) = 2
        /\ pc = "await_goplus" => Len(calls) = 3 /\ IsSome(verificationData)
        /\ Done => calls = EvmCallOrder
        /\ pc \notin {"await_dexscreener", "await_solana"}

\* C19 witness: a Polygon scan waiting for GoPlus, both explorer calls
\* answered.
C19_Witness ==
    /\ EvmScan /\ network = "polygon" /\ pc = "await_goplus"
    /\ calls = EvmCallOrder
    /\ IsSome(verificationData) /\ tokenInfo[1].name = "ExplorerToken"

SolanaCallOrder == <<"goplus", "dexscreener", "solana.getParsedAccountInfo">>

\* C20: on a Solana scan GoPlus is asked first; DexScreener and the Solana
\* RPC are called only after GoPlus returned no record, in that order; when
\* GoPlus returns a record neither is called and the record is the
\* securityData that is analysed, scored and reported.
C20_SolanaFallbackOnlyAfterMiss ==
    SolanaScan =>
        /\ Len(calls) <= 3 /\ calls = SubSeq(SolanaCallOrder, 1, Len(calls))
        /\ ~Called("explorer.tokeninfo") /\ ~Called("explorer.getsourcecode")
        /\ pc = "request" => calls = <<>>
        /\ pc = "await_goplus" => calls = <<"goplus">>
        /\ pc = "await_dexscreener" => Len(calls) = 2 /\ securityData = None
        /\ pc = "await_solana" => Len(calls) = 3 /\ securityData = None
        /\ Done => Len(calls) \in {1, 3}
        /\ (Done /\ Len(calls) = 1) =>
              /\ securityData[1] \in GoPlusRecords
              /\ holderAnalysis[1] =
                    analyzeHolderConcentration(HoldersOrEmpty(securityData[1]))
              /\ riskAssessment[1] =
                    calculateRiskScore(securityData[1], None, holderAnalysis)
              /\ response[1].security.isHoneypot = (securityData[1].is_honeypot = "1")
              /\ response[1].riskAssessment = riskAssessment[1]
        /\ (Done /\ Len(calls) = 3) =>
              /\ securityData[1] \notin GoPlusRecords
              /\ securityData[1].holder_count = NotANumber
              /\ securityData[1].holders = Some(<<>>)

\* C20 witness: GoPlus knew the Solana token as a honeypot: no fallback
\* call was made and the record's flag is reported.
C20_Witness ==
    /\ SolanaScan /\ StatusIs(200) /\ calls = <<"goplus">>
    /\ securityData[1] \in GoPlusRecords
    /\ response[1].security.isHoneypot
    /\ response[1].tokenInfo.name = "GoPlusToken"

\* the step in which GoPlus answers with a record
RecordStep ==
    /\ pc = "await_goplus" /\ pc' = "done"
    /\ IsSome(securityData') /\ securityData'[1] \in GoPlusRecords

\* C21: a GoPlus record fills tokenInfo.name and tokenInfo.symbol only, and
\* each only if it is still 'Unknown' when the record arrives; decimals,
\* totalSupply, verified and ownerAddress are left as they were, and a name
\* or symbol set by the explorer is never replaced.
C21_RecordFillsUnknownNamesOnly ==
    [][RecordStep =>
         LET old == tokenInfo[1]
             new == tokenInfo'[1]
             rec == securityData'[1]
         IN  /\ new.decimals = old.decimals
             /\ new.totalSupply = old.totalSupply
             /\ new.verified = old.verified
             /\ new.ownerAddress = old.ownerAddress
             /\ old.name # "Unknown" => new.name = old.name
             /\ old.symbol # "Unknown" => new.symbol = old.symbol
             /\ new.name \in {old.name, rec.token_name}
             /\ new.symbol \in {old.symbol, rec.token_symbol}
             /\ (old.name = "Unknown" /\ rec.token_name = "GoPlusToken") =>
                   new.name = "GoPlusToken"
             /\ response'[1].tokenInfo = new]_vars

\* C21 witness: the explorer named the token, GoPlus names it otherwise,
\* and the ScanResult keeps the explorer's name, decimals and supply.
C21_Witness ==
    /\ StatusIs(200) /\ network = "bsc" /\ calls = EvmCallOrder
    /\ securityData[1].token_name = "GoPlusToken"
    /\ response[1].tokenInfo.name = "ExplorerToken"
    /\ response[1].tokenInfo.symbol = "EXP"
    /\ response[1].tokenInfo.totalSupply = "1000000"

\* C22: in every EVM ScanResult tokenInfo.verified is the verified flag of
\* the verification result: the provisional true of a successful explorer
\* metadata call is overwritten by it, also when the contract is not
\* verified or the verification call failed.
C22_VerifiedFollowsVerification ==
    /\ (EvmScan /\ (pc = "await_goplus" \/ Done)) =>
          tokenInfo[1].verified = verificationData[1].verified
    /\ (EvmScan /\ StatusIs(200)) =>
          /\ response[1].tokenInfo.verified = response[1].verification.verified
          /\ response[1].verification = verificationData[1]
    /\ (EvmScan /\ StatusIs(404) /\ IsSome(response[1].explorerData)) =>
          response[1].explorerData[1].verified = verificationData[1].verified

\* C22 witness: the explorer knew the token (provisional verified = true),
\* the verification call failed, and the ScanResult says verified = false.
C22_Witness ==
    /\ EvmScan /\ StatusIs(200) /\ ~ExplorerMetadataFailed
    /\ response[1].tokenInfo.name = "ExplorerToken"
    /\ response[1].verification = [verified |-> JsFalse]
    /\ response[1].tokenInfo.verified = JsFalse

\* the mint accounts among the answers of the chain
MintAccounts ==
    {raw \in SolanaAnswers :
        raw.kind = "parsed" /\ raw.mintAuthority # UNDEFINED
                            /\ raw.freezeAuthority # UNDEFINED}

\* the chain answers that lead to the securityData of this scan
AnswersBehind ==
    {raw \in SolanaAnswers :
        securityData[1] = FallbackSecurityData(tokenInfo[1],
                                               getSolanaTokenOwnership(raw))}

\* C23: in the Solana fallback with a mint account read from the chain,
\* mintAuthority = null gives ownership renounced (owner null, not mintable),
\* mintAuthority # null gives mintable and owner = mintAuthority, the token
\* is blacklistable iff freezeAuthority # null, and honeypot, proxy,
\* take-back and both taxes are off.
C23_FallbackSignalsFollowMint ==
    (SolanaScan /\ StatusIs(200) /\ TookFallback /\ ~ChainStateFailed) =>
        /\ AnswersBehind # {}
        /\ \A raw \in AnswersBehind \cap MintAccounts :
              LET sec == response[1].security
              IN  /\ raw.mintAuthority = NULL =>
                        /\ InSd.owner_address = NULL /\ InSd.is_mintable = "0"
                        /\ sec.isOwnershipRenounced /\ ~sec.isMintable
                  /\ raw.mintAuthority # NULL =>
                        /\ InSd.owner_address = raw.mintAuthority
                        /\ InSd.is_mintable = "1"
                        /\ sec.ownerAddress = raw.mintAuthority
                        /\ ~sec.isOwnershipRenounced /\ sec.isMintable
                  /\ InSd.is_blacklisted = "1" <=> raw.freezeAuthority # NULL
                  /\ sec.hasBlacklist <=> raw.freezeAuthority # NULL
        /\ InSd.is_honeypot = "0" /\ InSd.is_proxy = "0"
        /\ InSd.can_take_back_ownership = "0"
        /\ InSd.buy_tax = NumStr(0) /\ InSd.sell_tax = NumStr(0)
        /\ ~response[1].security.isHoneypot /\ ~response[1].security.isProxy

\* C23 witness: a mint with a mint authority and no freeze authority.
C23_Witness ==
    /\ SolanaScan /\ StatusIs(200) /\ TookFallback /\ ~ChainStateFailed
    /\ response[1].security.ownerAddress = "MintAuthority"
    /\ response[1].security.isMintable
    /\ ~response[1].security.hasBlacklist
    /\ OutScore = 75

----------------------------------------------------------------------------
(* The rate limiter, server.js:39-65.  Both API routes run it before their  *)
(* handler (server.js:493, 740); it keeps, per client IP, the times of the  *)
(* requests it let through.  The clock moves in steps of half a window.     *)

RATE_LIMIT_WINDOW == 60000
MAX_REQUESTS == 10

\* how many times the clock advances
MaxTicks == 2

\* how many requests arrive in all
MaxArrivals == 12

TickMs == RATE_LIMIT_WINDOW \div 2

\* faulty variant, for sensitivity checks: a time exactly one window old still counts
Recent_Inclusive(times, t) ==
    LET InWindow(time) == t - time <= RATE_LIMIT_WINDOW
    IN  SelectSeq(times, InWindow)

\* .filter(time => now - time < RATE_LIMIT_WINDOW), server.js:53
Recent(times, t) ==
    LET InWindow(time) == t - time < RATE_LIMIT_WINDOW
    IN  SelectSeq(times, InWindow)

\* faulty variant, for sensitivity checks: the limit is tested with >
Exceeded_Strict(requests) == Len(requests) > MAX_REQUESTS

\* if (requests.length >= MAX_REQUESTS), server.js:55
Exceeded(requests) == Len(requests) >= MAX_REQUESTS

\* the middleware on a request of ip at time t: the status it answers, or
\* "next" when it hands the request to the handler, and the map it leaves.
\* The key is created on first sight (server.js:49-51); the filtered list
\* is stored only together with the new time (server.js:62-63).
rateLimit(map, ip, t) ==
    LET withKey == [map EXCEPT ![ip] = IF IsSome(@) THEN @ ELSE Some(<<>>)]
        requests == Recent(Get(withKey[ip]), t)
    IN  IF Exceeded(requests)
        THEN [status |-> "429", map |-> withKey]
        ELSE [status |-> "next",
              map |-> [withKey EXCEPT ![ip] = Some(Append(requests, t))]]

\* the handler variables while no scan is looked at
ScanIdle ==
    /\ pc = "idle"
    /\ network = "none"
    /\ addressValid = FALSE
    /\ tokenInfo = None
    /\ verificationData = None
    /\ securityData = None
    /\ holders = None
    /\ encoding = "fraction"
    /\ holderAnalysis = None
    /\ riskAssessment = None
    /\ response = None
    /\ calls = <<>>
    /\ received = <<>>

RECURSIVE SumOver(_, _)
SumOver(f, S) ==
    IF S = {} THEN 0
    ELSE LET x == CHOOSE y \in S : TRUE IN f[x] + SumOver(f, S \ {x})

\* requests seen so far, let through or not
Arrivals == SumOver([ip \in ClientIPs |-> Len(admitted[ip]) + limited[ip]], ClientIPs)

InitRate == ScanIdle /\ LimiterIdle /\ BotIdle /\ OneScan

\* Date.now() moves on
Tick ==
    /\ now < MaxTicks * TickMs
    /\ now' = now + TickMs
    /\ UNCHANGED <<scanVars, rateLimitMap, admitted, limited, botVars, parked, running>>

\* one run of the middleware for a request of ip to a route; pc tells where
\* the request went: into the route's handler, or back with 429
Limit(ip, route) ==
    LET r == rateLimit(rateLimitMap, ip, now)
    IN  /\ Arrivals < MaxArrivals
        /\ rateLimitMap' = r.map
        /\ IF r.status = "next"
           THEN /\ admitted' = [admitted EXCEPT ![ip] = Append(@, now)]
                /\ pc' = route
                /\ UNCHANGED limited
           ELSE /\ limited' = [limited EXCEPT ![ip] = @ + 1]
                /\ pc' = "429"
                /\ UNCHANGED admitted
        /\ UNCHANGED <<network, addressValid, tokenInfo, verificationData,
                       securityData, holders, encoding, holderAnalysis,
                       riskAssessment, response, calls, received>>
        /\ UNCHANGED <<now, botVars, parked, running>>

\* app.get('/api/check-token/:network/:address', rateLimit, ...), server.js:493
CheckTokenRequest == \E ip \in ClientIPs : Limit(ip, "check-token")

\* app.get('/api/token-info/:address', rateLimit, ...), server.js:740
TokenInfoRequest == \E ip \in ClientIPs : Limit(ip, "token-info")

NextRate == Tick \/ CheckTokenRequest \/ TokenInfoRequest

SpecRate == InitRate /\ [][NextRate]_vars

----------------------------------------------------------------------------
(* Claims about the rate limiter. *)

\* the requests of ip let through at a time from t up to, not including, t + window
AdmittedFrom(ip, t) ==
    {i \in DOMAIN admitted[ip] :
        t <= admitted[ip][i] /\ admitted[ip][i] < t + RATE_LIMIT_WINDOW}

\* the requests of ip let through less than one window ago
AdmittedLately(ip) ==
    {i \in DOMAIN admitted[ip] : now - admitted[ip][i] < RATE_LIMIT_WINDOW}

\* this step is the middleware's run for a request of ip
ArrivalOf(ip) ==
    Len(admitted'[ip]) + limited'[ip] = Len(admitted[ip]) + limited[ip] + 1

\* every 60-second window that starts with a request let through holds at
\* most 10 of them (any other window holds no more than one of these)
AtMostTenPerWindow ==
    \A ip \in ClientIPs : \A i \in DOMAIN admitted[ip] :
        Cardinality(AdmittedFrom(ip, admitted[ip][i])) <= MAX_REQUESTS

\* what a request of ip meets: refused exactly when 10 were let through
\* lately, and then nothing is recorded; nothing of another IP is touched
LimitStep ==
    \A ip \in ClientIPs :
        ArrivalOf(ip) =>
            /\ IF Cardinality(AdmittedLately(ip)) >= MAX_REQUESTS
               THEN /\ pc' = "429"
                    /\ limited'[ip] = limited[ip] + 1
                    /\ admitted' = admitted
                    /\ rateLimitMap' = rateLimitMap
               ELSE /\ pc' \in {"check-token", "token-info"}
                    /\ admitted'[ip] = Append(admitted[ip], now)
                    /\ limited' = limited
            /\ \A other \in ClientIPs \ {ip} :
                   /\ rateLimitMap'[other] = rateLimitMap[other]
                   /\ admitted'[other] = admitted[other]
                   /\ limited'[other] = limited[other]

\* C26: per client IP, over any interleaving of requests to check-token and
\* token-info, at most 10 requests are let through within any 60-second
\* window (a window holds the times t <= time < t + 60000); a request that
\* arrives while 10 let through lie within the last 60 seconds is answered
\* 429 and is not recorded, so that the next request of that IP is let
\* through as soon as fewer than 10 lie within the window, and no other IP
\* is affected.
C26_TenPerWindowPerIp == []AtMostTenPerWindow /\ [][LimitStep]_vars

\* an IP was refused and, the window having passed, was let through again
C26_Witness ==
    \E ip \in ClientIPs :
        /\ limited[ip] > 0
        /\ Len(admitted[ip]) > MAX_REQUESTS
        /\ pc \in {"check-token", "token-info"}

----------------------------------------------------------------------------
(* Two scans in one process.  Node runs one handler at a time and changes   *)
(* over at an await; the locals of the handler that waits (server.js:516,   *)
(* 525, 558, 677, 680) stay in its own frame.  The handler variables hold   *)
(* the frame of the scan that runs, parked the frame of the one that waits. *)
(* Both requests come from one IP, so both pass through one list of the     *)
(* rate limiter.                                                            *)

\* the frame of the running handler
Locals ==
    [pc |-> pc, network |-> network, addressValid |-> addressValid,
     tokenInfo |-> tokenInfo, verificationData |-> verificationData,
     securityData |-> securityData, holders |-> holders,
     holderAnalysis |-> holderAnalysis, riskAssessment |-> riskAssessment,
     response |-> response, calls |-> calls, received |-> received]

\* the frame of a request that has not reached the middleware yet
NewRequest(net, valid) ==
    [pc |-> "arrived", network |-> net, addressValid |-> valid,
     tokenInfo |-> None, verificationData |-> None, securityData |-> None,
     holders |-> None, holderAnalysis |-> None, riskAssessment |-> None,
     response |-> None, calls |-> <<>>, received |-> <<>>]

\* the requests of the two scans: an EVM scan beside a Solana scan or beside
\* a request for a network that is not supported
FirstRequests == {NewRequest("ethereum", TRUE)}
SecondRequests == {NewRequest(net, TRUE) : net \in {"solana", "tron"}}

\* req.ip of both requests
PairIP == "ip1"

\* faulty variant, for sensitivity checks: tokenInfo declared at module
\* level, so a handler that resumes finds what the other one left in it
Resumed_SharedTokenInfo(frame) == [frame EXCEPT !.tokenInfo = tokenInfo]

\* what a handler finds in its locals when it resumes: what it left there
Resumed(frame) == frame

InitPair ==
    /\ running = 1
    /\ \E first \in FirstRequests :
         /\ pc = first.pc
         /\ network = first.network
         /\ addressValid = first.addressValid
         /\ tokenInfo = first.tokenInfo
         /\ verificationData = first.verificationData
         /\ securityData = first.securityData
         /\ holders = first.holders
         /\ holderAnalysis = first.holderAnalysis
         /\ riskAssessment = first.riskAssessment
         /\ response = first.response
         /\ calls = first.calls
         /\ received = first.received
    /\ encoding = "fraction"
    /\ parked \in {Some(second) : second \in SecondRequests}
    /\ LimiterIdle
    /\ BotIdle

\* the body of the 429 response, server.js:56-59
TooManyRequests ==
    [status |-> 429, error |-> "Too many requests. Please try again later.",
     retryAfter |-> 60]

\* server.js:45-65, 493: the request passes the middleware, which calls the
\* handler or answers 429
Arrive ==
    /\ pc = "arrived"
    /\ LET r == rateLimit(rateLimitMap, PairIP, now)
       IN  /\ rateLimitMap' = r.map
           /\ IF r.status = "next"
              THEN /\ pc' = "request"
                   /\ admitted' = [admitted EXCEPT ![PairIP] = Append(@, now)]
                   /\ UNCHANGED <<response, limited>>
              ELSE /\ pc' = "done"
                   /\ response' = Some(TooManyRequests)
                   /\ limited' = [limited EXCEPT ![PairIP] = @ + 1]
                   /\ UNCHANGED admitted
    /\ UNCHANGED <<network, addressValid, tokenInfo, verificationData, securityData,
                   holders, encoding, holderAnalysis, riskAssessment, calls,
                   received>>
    /\ UNCHANGED <<now, botVars, parked, running>>

\* the running handler waits (at an await, or it has answered, or its
\* request is still on its way) and the other one, not yet done, goes on
Switch ==
    /\ pc # "request"
    /\ IsSome(parked)
    /\ Get(parked).pc # "done"
    /\ parked' = Some(Locals)
    /\ running' = 3 - running
    /\ LET frame == Resumed(Get(parked))
       IN  /\ pc' = frame.pc
           /\ network' = frame.network
           /\ addressValid' = frame.addressValid
           /\ tokenInfo' = frame.tokenInfo
           /\ verificationData' = frame.verificationData
           /\ securityData' = frame.securityData
           /\ holders' = frame.holders
           /\ holderAnalysis' = frame.holderAnalysis
           /\ riskAssessment' = frame.riskAssessment
           /\ response' = frame.response
           /\ calls' = frame.calls
           /\ received' = frame.received
    /\ UNCHANGED <<encoding, limiterVars, botVars>>

NextPair == Arrive \/ Next \/ Switch

SpecPair == InitPair /\ [][NextPair]_vars

----------------------------------------------------------------------------
(* Claims about two scans in one process. *)

\* what a scan leaves behind
Outcome(ti, sd, ra, res) ==
    [tokenInfo |-> ti, securityData |-> sd, riskAssessment |-> ra, response |-> res]

\* the outcome of a scan that reaches analysis and scoring, server.js:676-725
ScoredOutcome(ti, sd, vdOpt) ==
    LET ha == analyzeHolderConcentration(HoldersOrEmpty(sd))
        ra == calculateRiskScore(sd, vdOpt, Some(ha))
    IN  Outcome(Some(ti), Some(sd), Some(ra), Some(ScanResult(ti, sd, vdOpt, ha, ra)))

\* The handler run from its first line to its response with nothing else in
\* the process, on the provider answers rcv in the order in which it asks:
\* explorer, verification, GoPlus on an EVM network; GoPlus, DexScreener,
\* chain on Solana (server.js:493-735).
ScanAlone(net, valid, rcv) ==
    IF ~HasEntry(SupportedNetworks, net) \/ ~valid
    THEN Outcome(None, None, None,
                 Some([status |-> 400,
                       error |-> IF ~HasEntry(SupportedNetworks, net)
                                 THEN "Unsupported network"
                                 ELSE "Invalid token address format"]))
    ELSE LET evm == net # "solana"
             declared == InitialTokenInfo(net)
             explorerData == getTokenInfoFromExplorer(net, rcv[1])
             explored == IF evm /\ explorerData.found
                         THEN [declared EXCEPT !.name = explorerData.name,
                                               !.symbol = explorerData.symbol,
                                               !.decimals = explorerData.decimals,
                                               !.totalSupply = explorerData.totalSupply,
                                               !.verified = explorerData.verified]
                         ELSE declared
             vdOpt == IF evm THEN Some(getContractVerificationStatus(net, rcv[2]))
                      ELSE None
             ti == IF evm THEN WithVerification(explored, Get(vdOpt)) ELSE explored
             goplus == IF evm THEN rcv[3] ELSE rcv[1]
             sdOpt == GoPlusSecurityData(goplus)
             dexInfo == getTokenInfoFromDexScreener(rcv[2])
             named == [ti EXCEPT !.name = IF dexInfo.found THEN dexInfo.name
                                          ELSE "Unknown Solana Token",
                                 !.symbol = IF dexInfo.found THEN dexInfo.symbol
                                            ELSE "UNKNOWN"]
             ownership == getSolanaTokenOwnership(rcv[3])
             read == FallbackTokenInfo(named, ownership)
         IN  IF GoPlusCatch(GoPlusTry(goplus)).threw
             THEN Outcome(Some(ti), None, None, Some(InternalFailure("error.message")))
             ELSE IF NeedsFallback(net, sdOpt)
             THEN ScoredOutcome(read, FallbackSecurityData(read, ownership), vdOpt)
             ELSE IF NoSecurityData(net, sdOpt)
             THEN Outcome(Some(ti), None, None,
                          Some(SecurityDataUnavailable(ti, GoPlusError(goplus))))
             ELSE IF IsSome(sdOpt)
             THEN ScoredOutcome(FillFromGoPlus(ti, Get(sdOpt)), Get(sdOpt), vdOpt)
             ELSE Outcome(Some(ti), None, None,
                          Some(InternalFailure("Cannot read properties of null")))

\* the frames of both scans
Frames == {Locals} \cup (IF IsSome(parked) THEN {Get(parked)} ELSE {})

\* the scans the middleware handed to the handler and the handler answered
Finished == {f \in Frames : f.pc = "done" /\ f.response # Some(TooManyRequests)}

\* the scans that passed the middleware
Arrived == {f \in Frames : f.pc # "arrived"}

\* C24: whatever the interleaving of the provider-call steps of two scans,
\* each scan ends with the token profile, the security signals, the risk
\* assessment and the response it produces alone on the provider answers it
\* received; the one thing both scans wrote is the list of their IP in the
\* rate-limit map, which holds the arrival of each.
C24_ScansAreIndependent ==
    /\ \A f \in Finished :
         LET alone == ScanAlone(f.network, f.addressValid, f.received)
         IN  /\ f.response = alone.response
             /\ f.tokenInfo = alone.tokenInfo
             /\ f.securityData = alone.securityData
             /\ f.riskAssessment = alone.riskAssessment
    /\ Arrived # {} =>
         /\ IsSome(rateLimitMap[PairIP])
         /\ Len(Get(rateLimitMap[PairIP])) = Cardinality(Arrived)

\* both scans were answered 200, the EVM scan having waited for GoPlus while
\* the Solana scan went through its fallback
C24_Witness ==
    /\ Cardinality(Finished) = 2
    /\ \A f \in Finished : f.response[1].status = 200
    /\ running = 1
    /\ "solana.getParsedAccountInfo" \in {Get(parked).calls[i] : i \in DOMAIN Get(parked).calls}
    /\ riskAssessment # Get(parked).riskAssessment

----------------------------------------------------------------------------
(* Termination of a scan.  Every await of the handler waits for a call that *)
(* carries a timeout (axios timeout, server.js:246, 291, 328, 563; the race *)
(* against setTimeout, server.js:360-367), so each wait ends and the step   *)
(* after it is taken: weak fairness of the handler's steps.                 *)

SpecLive == Spec /\ WF_vars(Next)

\* the response, once sent, stays the only one, and the handler has ended
AnsweredOnce ==
    IsSome(response) => response' = response /\ pc' = "done"

\* C25: every scan request is answered in the end, with exactly one
\* response, which is a client error (400), security data unavailable (404),
\* an internal failure (500) or a ScanResult (200), given that each provider
\* call answers or runs into its timeout; the handler never waits for ever
\* and never answers a second time.
C25_EveryScanAnsweredOnce ==
    /\ <>Done
    /\ [](IsSome(response) <=> pc = "done")
    /\ [](IsSome(response) => response[1].status \in {200, 400, 404, 500})
    /\ [][AnsweredOnce]_vars

\* a scan was answered after its chain read ran into the 8-second timeout
C25_Witness ==
    /\ Done
    /\ \E i \in DOMAIN received : received[i].kind = "timeout"
    /\ response[1].status = 200

----------------------------------------------------------------------------
(* The Telegram bot, src/telegram-bot.js.  A chat picks a network with a    *)
(* button (callback_query, lines 121-151) and then sends an address         *)
(* (message, lines 154-327); the handler of the message reads the chat's    *)
(* session, asks the API and reports.  Handlers of several updates run      *)
(* interleaved at their awaits.                                             *)

\* the networks of the keyboard that the model uses (lines 98-107)
BotNetworks == {"ethereum", "solana"}

\* how many times a chat picks a network
MaxSelections == 2

\* how many scans the bot starts in all
MaxScans == 2

InitBot == ScanIdle /\ LimiterIdle /\ BotIdle /\ OneScan

\* callback_query with data network_<net>: userSessions.set(chatId, { network }),
\* lines 127-130
SelectNetwork ==
    \E chat \in Chats, net \in BotNetworks :
        /\ selected[chat] < MaxSelections
        /\ userSessions' = [userSessions EXCEPT ![chat] = Some([network |-> net])]
        /\ selected' = [selected EXCEPT ![chat] = @ + 1]
        /\ UNCHANGED <<scanVars, limiterVars, botScans, parked, running>>

\* the negation of `!session || !session.network`, line 162
HasNetwork(session) == IsSome(session) /\ Get(session).network # ""

\* a text message that is no command, lines 154-187: without a session the
\* chat is told to select a network, a text shorter than 32 characters is
\* refused, otherwise the scan starts with the session's network and
\* announces itself
AddressMessage ==
    \E chat \in Chats, longEnough \in BOOLEAN :
        /\ IF HasNetwork(userSessions[chat]) /\ longEnough
           THEN /\ Len(botScans) < MaxScans
                /\ botScans' = Append(botScans,
                                      [chat |-> chat,
                                       network |-> IF IsSome(userSessions[chat])
                                                   THEN Get(userSessions[chat]).network
                                                   ELSE UNDEFINED,
                                       since |-> selected[chat],
                                       at |-> "announce"])
           ELSE UNCHANGED botScans
        /\ UNCHANGED <<scanVars, limiterVars, userSessions, selected, parked, running>>

\* await bot.sendMessage('Scanning Token...'), lines 180-187: sent, and the
\* two API requests go out; or the send fails and the handler ends there
Announced ==
    \E i \in DOMAIN botScans, sent \in BOOLEAN :
        /\ botScans[i].at = "announce"
        /\ botScans' = [botScans EXCEPT ![i].at = IF sent THEN "api" ELSE "failed"]
        /\ UNCHANGED <<scanVars, limiterVars, userSessions, selected, parked, running>>

\* await Promise.allSettled([...]), lines 193-279: with the security answer
\* the report is built and sent; without it, or when building the report
\* raises, the catch block reports the failure (lines 291-326)
ApiSettled ==
    \E i \in DOMAIN botScans, fulfilled \in BOOLEAN :
        /\ botScans[i].at = "api"
        /\ botScans' = [botScans EXCEPT ![i].at = IF fulfilled THEN "report" ELSE "failed"]
        /\ UNCHANGED <<scanVars, limiterVars, userSessions, selected, parked, running>>

\* userSessions.delete(chatId), line 289
AfterReport(sessions, scan) == [sessions EXCEPT ![scan.chat] = None]

\* await bot.sendMessage(chatId, message, ...), lines 283-289: once the report
\* is sent the chat's session is deleted; a failed send goes to the catch block
ReportSent ==
    \E i \in DOMAIN botScans, sent \in BOOLEAN :
        /\ botScans[i].at = "report"
        /\ botScans' = [botScans EXCEPT ![i].at = IF sent THEN "reported" ELSE "failed"]
        /\ userSessions' = IF sent THEN AfterReport(userSessions, botScans[i])
                           ELSE userSessions
        /\ UNCHANGED <<scanVars, limiterVars, selected, parked, running>>

NextBot == SelectNetwork \/ AddressMessage \/ Announced \/ ApiSettled \/ ReportSent

SpecBot == InitBot /\ [][NextBot]_vars

----------------------------------------------------------------------------
(* Claims about the bot. *)

\* a scan is started only for a chat with a selected network, and with it
StartsOnlyWithSelection ==
    Len(botScans') > Len(botScans) =>
        LET scan == botScans'[Len(botScans')]
        IN  /\ IsSome(userSessions[scan.chat])
            /\ scan.network = Get(userSessions[scan.chat]).network
            /\ scan.network \in BotNetworks

\* a scan that fails leaves every session as it is
FailureKeepsSelection ==
    \A i \in DOMAIN botScans :
        botScans[i].at # "failed" /\ botScans'[i].at = "failed"
            => userSessions' = userSessions

\* the report of a scan leaves alone a selection made after the scan started
NewerSelectionSurvives ==
    \A i \in DOMAIN botScans :
        /\ botScans[i].at = "report" /\ botScans'[i].at = "reported"
        /\ selected[botScans[i].chat] > botScans[i].since
        => userSessions'[botScans[i].chat] = userSessions[botScans[i].chat]

\* C27: a chat's network selection stays in effect until a scan that the
\* chat started after making that selection is reported: a scan is started
\* only for a chat with a selected network, a failed scan keeps the
\* selection, and the report of an earlier scan that was still under way
\* never discards a newer selection made while it ran.
C27_SelectionOutlivesEarlierScans ==
    [][StartsOnlyWithSelection /\ FailureKeepsSelection /\ NewerSelectionSurvives]_vars

----------------------------------------------------------------------------
(* Ownership in the response and in the score. *)

\* the statements of the ownership deduction, server.js:421-424
OwnershipStatements ==
    {"MEDIUM: Ownership not renounced",
     "MEDIUM: Ownership status unknown (limited data)"}

\* C28: in every ScanResult security.isOwnershipRenounced agrees with the
\* score: it is false exactly when calculateRiskScore took the 10 points of
\* the ownership deduction and put an ownership statement among the risks,
\* whatever owner_address the record carries (an address, the zero address,
\* null, an empty string, no field at all).
C28_RenouncedAgreesWithScore ==
    Answered200 =>
        (~response[1].security.isOwnershipRenounced
            <=> Statements \cap OwnershipStatements # {})

----------------------------------------------------------------------------
(* The full score. *)

\* the rows of the deduction table that apply to the input
RowsApplied == {i \in 1..Len(TablePoints) : RowApplies(i)}

\* C29: for every input of calculateRiskScore the score is 100 exactly when
\* risks is empty; every deduction that applies adds exactly one statement;
\* and the verified bonus of 5, capped at 100 and added before the holder
\* count and liquidity deductions, never lifts a score that took a deduction
\* back to 100 (it reaches 95 at most).
C29_FullScoreIffNoRisk ==
    Scored =>
        /\ OutScore = 100 <=> OutRisks = <<>>
        /\ Len(OutRisks) = Cardinality(RowsApplied)
        /\ IsVerified /\ RowsApplied # {} => OutScore <= 95

\* a verified contract with one finding of 10 points is scored 95, with one
\* statement
C29_Witness ==
    /\ Scored
    /\ IsVerified
    /\ RowsApplied \in {{3}, {6}, {7}}
    /\ OutScore = 95
    /\ Len(OutRisks) = 1

----------------------------------------------------------------------------
(* The score of the Solana fallback. *)

\* the answer of the chain read, the last provider answer of a fallback scan
ChainAnswer == received[Len(received)]

\* the score by the state of the mint account alone: 100, less 15 for a mint
\* authority that is not null and 10 more when it is an address, less 20 for
\* a freeze authority that is not null; 90 when the account could not be read
ChainStateScore(raw) ==
    IF raw.kind # "parsed" THEN 90
    ELSE 100
         - (IF raw.mintAuthority # NULL THEN 15 ELSE 0)
         - (IF raw.mintAuthority \notin {NULL, UNDEFINED} THEN 10 ELSE 0)
         - (IF raw.freezeAuthority # NULL THEN 20 ELSE 0)

\* C30: when GoPlus has no record of a Solana token, the score is decided by
\* the outcome of the chain read alone (mint authority, freeze authority, or
\* the failure of the read): the holder count and the LP supply, both 'N/A',
\* take no points, the score is never below 55 and the level never danger.
C30_FallbackScoreFromChainState ==
    (TookFallback /\ Answered200) =>
        /\ OutScore = ChainStateScore(ChainAnswer)
        /\ InSd.holder_count = NotANumber /\ InSd.lp_total_supply = NotANumber
        /\ Statements \cap {"LOW: Low holder count", "HIGH: Very low liquidity"} = {}
        /\ OutScore >= 55
        /\ OutLevel # "danger"

\* a mint with both authorities set, whatever DexScreener said: 55, warning
C30_Witness ==
    /\ TookFallback /\ Answered200
    /\ ChainAnswer.kind = "parsed"
    /\ ChainAnswer.mintAuthority = "MintAuthority"
    /\ ChainAnswer.freezeAuthority = "FreezeAuthority"
    /\ OutScore = 55
    /\ OutLevel = "warning"

====
